---- MODULE Spec2Model ----
(***************************************************************************)
(* Model of the OAuth login API: the session manager (auth/sessions.ts),   *)
(* the account store (auth/repo.ts) and identity reconciliation            *)
(* (findOrCreateUserFromOAuth), over the schema of schema.sql.             *)
(*                                                                         *)
(* Time is the clock behind NOW() and Date.now(), in milliseconds; it      *)
(* advances half a session lifetime at a time.  Raw tokens are small       *)
(* naturals (0 is the empty string), digests naturals of a disjoint range. *)
(* SessionSpec runs the session manager over a store holding two users;    *)
(* Spec runs sequential reconciliation calls from the empty store, one     *)
(* step per awaited query, any of which the database may fail.  FlowSpec   *)
(* runs the OAuth routes (auth/routes.ts) from the empty store: a start,   *)
(* and two callbacks served concurrently, each through its provider        *)
(* adapter, its own reconcile transaction and its session issuance.        *)
(* StartSpec runs the start routes with the responses they send, PoolSpec  *)
(* the connection pool under more callers than it has connections, and     *)
(* AdapterSpec one call of a provider adapter with the requests it sends.  *)
(***************************************************************************)
EXTENDS Integers, FiniteSets, Sequences, TLC

VARIABLES
  users,           \* table users
  oauth_accounts,  \* table oauth_accounts
  sessions,        \* table sessions
  now,             \* the clock, in ms
  generated,       \* raw tokens crypto.randomBytes has produced so far
  res,             \* outcome of the session-manager operation just made
  issued,          \* history: raw token -> user and time of its issuance
  revoked,         \* history: issued tokens that a revoke has deleted by
  nextUserId,      \* sequence users_id_seq
  client,          \* the pooled connection and its open transaction
  rc,              \* the findOrCreateUserFromOAuth call in flight
  prev,            \* history: the last call that returned
  calls,           \* number of reconcile calls started
  req,             \* the callback requests being served, one per process
  tx,              \* the connection and open transaction of each request
  nodeEnv,         \* config.nodeEnv
  jar,             \* the oauth_state cookie the browser holds
  stateIssued,     \* CSRF states the start routes have generated
  seen             \* observation: the input the last step received

vars == <<users, oauth_accounts, sessions, now, generated, res, issued,
          revoked, nextUserId, client, rc, prev, calls, req, tx, nodeEnv,
          jar, stateIssued, seen>>

sessionVars == <<sessions, generated, res, issued, revoked>>
accountVars == <<users, oauth_accounts, nextUserId, client, rc, prev, calls>>
flowVars == <<req, tx, nodeEnv, jar, stateIssued, seen>>

----------------------------------------------------------------------------
(* Bounds of the model *)

MaxTicks == 3          \* times the clock may advance
MaxToken == 2          \* raw tokens the generator can draw: 1..MaxToken
MaxCalls == 2          \* reconcile calls per behaviour
MaxState == 1          \* CSRF states the generator can draw: 1..MaxState

(* Program constants *)

expiryDays == 7
expiryMs == expiryDays * 24 * 60 * 60 * 1000
MsPerTick == expiryMs \div 2

----------------------------------------------------------------------------
(* Values *)

NULL == "NULL"                       \* SQL NULL / JS null
EmptyToken == 0                      \* the empty string as a token
Tokens == 1..MaxToken                \* non-empty raw tokens
UserIds == 1..3
Providers == {"google", "github"}
ProviderIds == {"p1", "p2"}
Emails == {"a@x.com", "b@x.com"}
Names == {NULL, "", "Ann"}
Avatars == {NULL, "pic"}

Truthy(s) == s # NULL /\ s # ""      \* JS truthiness of string | null

----------------------------------------------------------------------------
(* utils/crypto.ts *)

\* A generator that may return a token it returned before.
generateRandomToken_Repeat == Tokens

\* crypto.randomBytes(32).toString('base64url'): the values a call can
\* return.  256 random bits do not repeat, so a call returns a token that
\* no earlier call returned.
generateRandomToken == Tokens \ generated

\* A digest that does not depend on its input.
hashToken_Const(input) == 100

\* SHA-256 stand-in: deterministic, fixed range 100..110 disjoint from the
\* raw tokens, collision-free on the tokens of the model.
hashToken(input) == 100 + ((input * 7 + 3) % 11)

Digests == 100..110

----------------------------------------------------------------------------
(* auth/repo.ts: sessions *)

\* Constraints of table sessions: user_id REFERENCES users, token_hash UNIQUE.
SessionConstraintsOk(userId, tokenHash) ==
  /\ \E u \in users : u.id = userId
  /\ \A s \in sessions : s.token_hash # tokenHash

\* INSERT INTO sessions (user_id, token_hash, expires_at, created_at)
createSession(userId, tokenHash, expiresAt) ==
  sessions \cup {[user_id |-> userId, token_hash |-> tokenHash,
                  expires_at |-> expiresAt, created_at |-> now]}

\* The lookup with a row still found at the instant of its expiry.
findSessionByTokenHash_Inclusive(tokenHash) ==
  LET rows == {s \in sessions : s.token_hash = tokenHash
                                /\ s.expires_at >= now}
  IN {d \in [session : rows, user : users] : d.user.id = d.session.user_id}

\* SELECT s.*, row_to_json(u.*) FROM sessions s JOIN users u ON u.id = s.user_id
\* WHERE s.token_hash = $1 AND s.expires_at > NOW() LIMIT 1
findSessionByTokenHash(tokenHash) ==
  LET rows == {s \in sessions : s.token_hash = tokenHash
                                /\ s.expires_at > now}
  IN {d \in [session : rows, user : users] : d.user.id = d.session.user_id}

\* A delete that removes every session of the owner of the matching row.
deleteSessionByTokenHash_Owner(tokenHash) ==
  {s \in sessions : \A x \in sessions :
     x.token_hash = tokenHash => s.user_id # x.user_id}

\* DELETE FROM sessions WHERE token_hash = $1
deleteSessionByTokenHash(tokenHash) ==
  {s \in sessions : s.token_hash # tokenHash}

\* A sweep that keeps the rows expiring exactly now.
deleteExpiredSessions_Strict == {s \in sessions : ~(s.expires_at < now)}

\* DELETE FROM sessions WHERE expires_at <= NOW(): the rows that remain.
deleteExpiredSessions == {s \in sessions : ~(s.expires_at <= now)}

----------------------------------------------------------------------------
(* auth/sessions.ts *)

\* What an operation did: its argument, the keys of its queries, the user,
\* token or row count it returned, whether it threw, whether the database
\* failed it, the value it set the session cookie to, and whether it cleared
\* the session cookie.
Res(op, arg, keys, user, token, count, err, fault, cookie, cleared) ==
  [op |-> op, arg |-> arg, keys |-> keys, user |-> user,
   token |-> token, count |-> count, err |-> err, fault |-> fault,
   cookie |-> cookie, cleared |-> cleared]

\* An expiry computed from the days, without the conversion to ms.
ExpiresAt_Days == now + expiryDays

\* new Date(Date.now() + config.session.expiryMs)
ExpiresAt == now + expiryMs

\* The raw token stored in place of its digest.
SessionTokenHash_Raw(sessionToken) == sessionToken

\* const tokenHash = hashToken(sessionToken), the value handed to createSession
SessionTokenHash(sessionToken) == hashToken(sessionToken)

\* An issue that sets the cookie before the insert has settled.
CreateUserSession_CookieFirst(userId, dbUp) ==
  \E sessionToken \in generateRandomToken :
    LET tokenHash == SessionTokenHash(sessionToken)
        expiresAt == ExpiresAt
    IN /\ generated' = generated \cup {sessionToken}
       /\ IF dbUp /\ SessionConstraintsOk(userId, tokenHash)
          THEN /\ sessions' = createSession(userId, tokenHash, expiresAt)
               /\ issued' = [issued EXCEPT ![sessionToken] =
                               [user |-> userId, at |-> now]]
               /\ res' = Res("issue", userId, {tokenHash}, {}, {sessionToken},
                             0, FALSE, FALSE, {sessionToken}, FALSE)
          ELSE /\ UNCHANGED <<sessions, issued>>
               /\ res' = Res("issue", userId, {tokenHash}, {}, {},
                             0, TRUE, ~dbUp, {sessionToken}, FALSE)
       /\ UNCHANGED <<revoked, now, accountVars, flowVars>>

\* createUserSession(res, userId); dbUp = FALSE is a failing pool.query.
CreateUserSession(userId, dbUp) ==
  \E sessionToken \in generateRandomToken :
    LET tokenHash == SessionTokenHash(sessionToken)
        expiresAt == ExpiresAt
    IN /\ generated' = generated \cup {sessionToken}
       /\ IF dbUp /\ SessionConstraintsOk(userId, tokenHash)
          THEN /\ sessions' = createSession(userId, tokenHash, expiresAt)
               /\ issued' = [issued EXCEPT ![sessionToken] =
                               [user |-> userId, at |-> now]]
               /\ res' = Res("issue", userId, {tokenHash}, {}, {sessionToken},
                             0, FALSE, FALSE, {sessionToken}, FALSE)
          ELSE /\ UNCHANGED <<sessions, issued>>
               /\ res' = Res("issue", userId, {tokenHash}, {}, {},
                             0, TRUE, ~dbUp, {}, FALSE)
       /\ UNCHANGED <<revoked, now, accountVars, flowVars>>

\* validateSession(sessionToken): the set holding the user returned, {} for null.
validateSession(sessionToken) ==
  IF sessionToken = EmptyToken
  THEN {}
  ELSE {d.user : d \in findSessionByTokenHash(hashToken(sessionToken))}

ValidateSession(sessionToken, dbUp) ==
  /\ res' = IF sessionToken = EmptyToken
            THEN Res("validate", sessionToken, {}, {}, {}, 0, FALSE, FALSE,
                     {}, FALSE)
            ELSE IF dbUp
            THEN Res("validate", sessionToken, {hashToken(sessionToken)},
                     validateSession(sessionToken), {}, 0, FALSE, FALSE,
                     {}, FALSE)
            ELSE Res("validate", sessionToken, {hashToken(sessionToken)},
                     {}, {}, 0, TRUE, TRUE, {}, FALSE)
  /\ UNCHANGED <<sessions, generated, issued, revoked, now, accountVars, flowVars>>

\* revokeSession(res, sessionToken)
RevokeSession(sessionToken, dbUp) ==
  /\ IF sessionToken # EmptyToken
     THEN LET tokenHash == hashToken(sessionToken)
          IN IF dbUp
             THEN /\ sessions' = deleteSessionByTokenHash(tokenHash)
                  /\ revoked' = IF issued[sessionToken].user # 0
                                THEN revoked \cup {sessionToken}
                                ELSE revoked
                  /\ res' = Res("revoke", sessionToken, {tokenHash}, {}, {},
                                0, FALSE, FALSE, {}, TRUE)
             ELSE /\ UNCHANGED <<sessions, revoked>>
                  /\ res' = Res("revoke", sessionToken, {tokenHash}, {}, {},
                                0, TRUE, TRUE, {}, FALSE)
     ELSE /\ UNCHANGED <<sessions, revoked>>
          /\ res' = Res("revoke", sessionToken, {}, {}, {}, 0, FALSE, FALSE,
                        {}, TRUE)
  /\ UNCHANGED <<generated, issued, now, accountVars, flowVars>>

\* deleteExpiredSessions(): returns result.rowCount || 0
DeleteExpiredSessions(dbUp) ==
  /\ IF dbUp
     THEN /\ sessions' = deleteExpiredSessions
          /\ res' = Res("sweep", 0, {}, {}, {},
                        Cardinality(sessions \ deleteExpiredSessions),
                        FALSE, FALSE, {}, FALSE)
     ELSE /\ UNCHANGED sessions
          /\ res' = Res("sweep", 0, {}, {}, {}, 0, TRUE, TRUE, {}, FALSE)
  /\ UNCHANGED <<generated, issued, revoked, now, accountVars, flowVars>>

NoRes == Res("none", 0, {}, {}, {}, 0, FALSE, FALSE, {}, FALSE)

\* The clock advances; the response of the last operation has been sent.
Tick ==
  /\ now + MsPerTick <= MaxTicks * MsPerTick
  /\ now' = now + MsPerTick
  /\ res' = NoRes
  /\ UNCHANGED <<sessions, generated, issued, revoked, accountVars, flowVars>>

----------------------------------------------------------------------------
(* auth/repo.ts: findOrCreateUserFromOAuth, one action per awaited query. *)
(* fail = TRUE is a query the database or the connection fails.           *)

Params == [provider : Providers, providerUserId : ProviderIds,
           email : Emails, name : Names, avatarUrl : Avatars]

NoTx == [checkedOut |-> FALSE, inTx |-> FALSE, users |-> {},
         oauth_accounts |-> {}]

Idle == [pc |-> "idle", params |-> {}, oauthAccount |-> {}, user |-> {},
         begun |-> FALSE, error |-> FALSE, fault |-> FALSE, failedAt |-> "",
         pre |-> [users |-> {}, oauth_accounts |-> {}]]

\* A lookup that compares the subject id with the wrong parameter.
FindOAuthAccountRows_WrongKey(accounts, params) ==
  {a \in accounts : /\ a.provider = params.provider
                     /\ a.provider_user_id = params.email}

\* WHERE provider = $1 AND provider_user_id = $2
FindOAuthAccountRows(accounts, params) ==
  {a \in accounts : /\ a.provider = params.provider
                     /\ a.provider_user_id = params.providerUserId}

\* A lookup that compares the email with the wrong column.
FindUserByEmailRows_WrongColumn(rows, email) == {u \in rows : u.name = email}

\* WHERE email = $1
FindUserByEmailRows(rows, email) == {u \in rows : u.email = email}

\* COALESCE($n, column)
COALESCE(a, b) == IF a # NULL THEN a ELSE b

TheParams == CHOOSE p \in rc.params : TRUE
TheUser == CHOOSE u \in rc.user : TRUE

\* catch (error): control passes to the ROLLBACK.
Caught(at, fault) ==
  rc' = [rc EXCEPT !.pc = "rollback", !.error = TRUE, !.failedAt = at,
                   !.fault = rc.fault \/ fault]

\* A caller invokes findOrCreateUserFromOAuth(params).
ReconcileCall(params) ==
  /\ rc.pc \in {"idle", "returned", "thrown"}
  /\ calls < MaxCalls
  /\ calls' = calls + 1
  /\ prev' = IF rc.pc = "returned"
             THEN {[params |-> TheParams, user |-> TheUser.id,
                    preUsers |-> Cardinality(rc.pre.users),
                    preLinks |-> Cardinality(rc.pre.oauth_accounts)]}
             ELSE prev
  /\ rc' = [Idle EXCEPT !.pc = "connect", !.params = {params},
                        !.pre = [users |-> users,
                                 oauth_accounts |-> oauth_accounts]]
  /\ UNCHANGED <<users, oauth_accounts, nextUserId, client, now, sessionVars, flowVars>>

\* const client = await pool.connect()  (outside the try block)
Connect(fail) ==
  /\ rc.pc = "connect"
  /\ IF fail
     THEN /\ rc' = [rc EXCEPT !.pc = "thrown", !.error = TRUE,
                              !.failedAt = "connect", !.fault = TRUE]
          /\ UNCHANGED client
     ELSE /\ rc' = [rc EXCEPT !.pc = "begin"]
          /\ client' = [client EXCEPT !.checkedOut = TRUE]
  /\ UNCHANGED <<users, oauth_accounts, nextUserId, prev, calls, now,
                 sessionVars, flowVars>>

\* await client.query('BEGIN'): a transaction already open on the
\* connection continues (PostgreSQL answers with a warning).
Begin(fail) ==
  /\ rc.pc = "begin"
  /\ IF fail
     THEN /\ Caught("begin", TRUE)
          /\ UNCHANGED client
     ELSE /\ rc' = [rc EXCEPT !.pc = "findAccount", !.begun = TRUE]
          /\ client' = IF client.inTx
                       THEN client
                       ELSE [client EXCEPT !.inTx = TRUE, !.users = users,
                               !.oauth_accounts = oauth_accounts]
  /\ UNCHANGED <<users, oauth_accounts, nextUserId, prev, calls, now,
                 sessionVars, flowVars>>

\* SELECT * FROM oauth_accounts WHERE provider = $1 AND provider_user_id = $2
FindAccount(fail) ==
  /\ rc.pc = "findAccount"
  /\ IF fail
     THEN Caught("findAccount", TRUE)
     ELSE LET found == FindOAuthAccountRows(client.oauth_accounts, TheParams)
          IN rc' = [rc EXCEPT !.oauthAccount = found,
                      !.pc = IF found # {} THEN "selectUser"
                             ELSE "findByEmail"]
  /\ UNCHANGED <<users, oauth_accounts, nextUserId, client, prev, calls, now,
                 sessionVars, flowVars>>

\* SELECT * FROM users WHERE id = $1; then if (params.name || params.avatarUrl)
SelectUser(fail) ==
  /\ rc.pc = "selectUser"
  /\ IF fail
     THEN Caught("selectUser", TRUE)
     ELSE LET found == {u \in client.users :
                          \E a \in rc.oauthAccount : u.id = a.user_id}
          IN rc' = [rc EXCEPT !.user = found,
                      !.pc = IF Truthy(TheParams.name)
                                \/ Truthy(TheParams.avatarUrl)
                             THEN "update" ELSE "commit"]
  /\ UNCHANGED <<users, oauth_accounts, nextUserId, client, prev, calls, now,
                 sessionVars, flowVars>>

\* UPDATE users SET name = COALESCE($2, name), avatar_url = COALESCE($3,
\* avatar_url), updated_at = NOW() WHERE id = $1 RETURNING *
Update(fail) ==
  /\ rc.pc = "update"
  /\ IF fail
     THEN /\ Caught("update", TRUE)
          /\ UNCHANGED client
     ELSE LET updated == [TheUser EXCEPT
                            !.name = COALESCE(TheParams.name, @),
                            !.avatar_url = COALESCE(TheParams.avatarUrl, @),
                            !.updated_at = now]
          IN /\ client' = [client EXCEPT
                             !.users = (@ \ {u \in @ : u.id = TheUser.id})
                                         \cup {updated}]
             /\ rc' = [rc EXCEPT !.user = {updated}, !.pc = "commit"]
  /\ UNCHANGED <<users, oauth_accounts, nextUserId, prev, calls, now,
                 sessionVars, flowVars>>

\* SELECT * FROM users WHERE email = $1 LIMIT 1
FindByEmail(fail) ==
  /\ rc.pc = "findByEmail"
  /\ IF fail
     THEN Caught("findByEmail", TRUE)
     ELSE LET existingUser == FindUserByEmailRows(client.users, TheParams.email)
          IN rc' = [rc EXCEPT !.user = existingUser,
                      !.pc = IF existingUser # {} THEN "insertLink"
                             ELSE "insertUser"]
  /\ UNCHANGED <<users, oauth_accounts, nextUserId, client, prev, calls, now,
                 sessionVars, flowVars>>

\* INSERT INTO users (email, name, avatar_url, created_at, updated_at)
\* VALUES ($1, $2, $3, NOW(), NOW()) RETURNING *; users.email is UNIQUE and
\* the id comes from a sequence, which a failed insert consumes all the same.
InsertUser(fail) ==
  /\ rc.pc = "insertUser"
  /\ IF fail
     THEN /\ Caught("insertUser", TRUE)
          /\ UNCHANGED <<client, nextUserId>>
     ELSE /\ nextUserId' = nextUserId + 1
          /\ IF \E u \in client.users : u.email = TheParams.email
             THEN /\ Caught("insertUser", FALSE)
                  /\ UNCHANGED client
             ELSE LET created == [id |-> nextUserId,
                                  email |-> TheParams.email,
                                  name |-> TheParams.name,
                                  avatar_url |-> TheParams.avatarUrl,
                                  created_at |-> now, updated_at |-> now]
                  IN /\ client' = [client EXCEPT !.users = @ \cup {created}]
                     /\ rc' = [rc EXCEPT !.user = {created},
                                         !.pc = "insertLink"]
  /\ UNCHANGED <<users, oauth_accounts, prev, calls, now, sessionVars, flowVars>>

\* INSERT INTO oauth_accounts (user_id, provider, provider_user_id, created_at);
\* user_id REFERENCES users, UNIQUE(provider, provider_user_id).
InsertLink(fail) ==
  /\ rc.pc = "insertLink"
  /\ IF fail
     THEN /\ Caught("insertLink", TRUE)
          /\ UNCHANGED client
     ELSE IF \/ ~ \E u \in client.users : u.id = TheUser.id
             \/ \E a \in client.oauth_accounts :
                  /\ a.provider = TheParams.provider
                  /\ a.provider_user_id = TheParams.providerUserId
          THEN /\ Caught("insertLink", FALSE)
               /\ UNCHANGED client
          ELSE /\ client' = [client EXCEPT !.oauth_accounts = @ \cup
                   {[user_id |-> TheUser.id,
                     provider |-> TheParams.provider,
                     provider_user_id |-> TheParams.providerUserId,
                     created_at |-> now]}]
               /\ rc' = [rc EXCEPT !.pc = "commit"]
  /\ UNCHANGED <<users, oauth_accounts, nextUserId, prev, calls, now,
                 sessionVars, flowVars>>

\* await client.query('COMMIT'); return user.  A COMMIT that fails has
\* committed nothing.
Commit(fail) ==
  /\ rc.pc = "commit"
  /\ IF fail
     THEN /\ Caught("commit", TRUE)
          /\ UNCHANGED <<users, oauth_accounts, client>>
     ELSE /\ users' = client.users
          /\ oauth_accounts' = client.oauth_accounts
          /\ client' = [client EXCEPT !.inTx = FALSE, !.users = {},
                                      !.oauth_accounts = {}]
          /\ rc' = [rc EXCEPT !.pc = "release"]
  /\ UNCHANGED <<nextUserId, prev, calls, now, sessionVars, flowVars>>

\* A catch block without its ROLLBACK: the transaction stays open.
ROLLBACK_Missing(c) == c

\* The connection after ROLLBACK: the writes of the transaction are gone.
ROLLBACK(c) == [c EXCEPT !.inTx = FALSE, !.users = {}, !.oauth_accounts = {}]

\* The connection after the server has lost it: the server aborts the
\* open transaction.
Aborted(c) == [c EXCEPT !.inTx = FALSE, !.users = {}, !.oauth_accounts = {}]

\* catch (error) { await client.query('ROLLBACK'); throw error; }
Rollback(fail) ==
  /\ rc.pc = "rollback"
  /\ client' = IF fail THEN Aborted(client) ELSE ROLLBACK(client)
  /\ rc' = [rc EXCEPT !.pc = "release", !.fault = rc.fault \/ fail]
  /\ UNCHANGED <<users, oauth_accounts, nextUserId, prev, calls, now,
                 sessionVars, flowVars>>

\* finally { client.release(); }, then the return or the throw reaches the
\* caller.
Release ==
  /\ rc.pc = "release"
  /\ client' = [client EXCEPT !.checkedOut = FALSE]
  /\ rc' = [rc EXCEPT !.pc = IF rc.error THEN "thrown" ELSE "returned"]
  /\ UNCHANGED <<users, oauth_accounts, nextUserId, prev, calls, now,
                 sessionVars, flowVars>>

----------------------------------------------------------------------------
(* auth/routes.ts: the OAuth routes.  Express serves requests concurrently: *)
(* a handler runs until its next await and other requests run meanwhile.    *)

Procs == {1, 2}                      \* the requests in flight at once
NodeEnvs == {"production", "development", "test"}
OAuthStates == 1..MaxState           \* values of generateRandomToken(32)

\* Values of req.query: absent, parsed to an array or object, or a string
\* (0 is the empty string).  State MaxState + 1 is a value no start issued.
Undefined == [type |-> "undefined", value |-> 0]
NonString == [type |-> "object", value |-> 0]
Str(v) == [type |-> "string", value |-> v]
CodeParams == {Undefined, NonString, Str(0), Str(1)}
StateParams == {Undefined, NonString} \cup {Str(v) : v \in 0..(MaxState + 1)}

\* What the provider answers to the token request and the profile requests:
\* it refuses the code, or it refuses the profile request, or it sends the
\* profile.  For GitHub the profile request stands for the two parallel
\* fetches, and verified_email says that the email list holds a primary
\* verified address.
TokenRefused ==
  [tokenOk |-> FALSE, userOk |-> FALSE, verified_email |-> FALSE,
   id |-> "", email |-> "", name |-> "", picture |-> ""]
ProfileRefused == [TokenRefused EXCEPT !.tokenOk = TRUE]
ProviderReplies ==
  {TokenRefused, ProfileRefused} \cup
  [tokenOk : {TRUE}, userOk : {TRUE}, verified_email : BOOLEAN,
   id : {"p1"}, email : Emails, name : {"Ann"}, picture : {"pic"}]

NoReply == TokenRefused

NoError == [message |-> "", code |-> ""]
UniqueViolation ==
  [message |-> "duplicate key value violates unique constraint",
   code |-> "23505"]
ForeignKeyViolation ==
  [message |-> "insert or update violates foreign key constraint",
   code |-> "23503"]
DbError == [message |-> "Connection terminated unexpectedly", code |-> ""]

NoBody == [error |-> "", details |-> "", user |-> {}]

\* A request: where its handler stands, its locals, and the response it has
\* queued or sent (status 0: none yet).  checked holds the state value that
\* passed the CSRF check; steps lists the calls the handler has made.
IdleReq ==
  [pc |-> "idle", provider |-> "", checked |-> {}, params |-> {},
   oauthAccount |-> {}, user |-> {}, err |-> NoError, steps |-> <<>>,
   status |-> 0, body |-> NoBody, cleared |-> FALSE, cookie |-> {}]

\* A connection of the pool with no transaction open.
NoWrites == [checkedOut |-> FALSE, inTx |-> FALSE, users |-> {},
             updated |-> {}, oauth_accounts |-> {}]

NoRequests ==
  /\ req = [p \in Procs |-> IdleReq]
  /\ tx = [p \in Procs |-> NoWrites]
  /\ jar = {}
  /\ stateIssued = {}
  /\ seen = {}

Seen(p, kind, code, state, cookie, reply) ==
  {[p |-> p, kind |-> kind, code |-> code, state |-> state,
    cookie |-> cookie, reply |-> reply]}

\* A check that lets a value of any type through when it is truthy.
Missing_TypeUnchecked(q) == q.type = "undefined" \/ (q.type = "string" /\ q.value = 0)

\* !value || typeof value !== 'string'
Missing(q) == q.type # "string" \/ q.value = 0

\* A check that accepts a callback arriving without the cookie.
InvalidState_CookieOptional(storedState, state) ==
  storedState # {} /\ storedState # {state.value}

\* !storedState || storedState !== state
InvalidState(storedState, state) ==
  storedState = {} \/ storedState # {state.value}

\* res.status(400).json({ error }); return
BadRequest(r, error) ==
  [r EXCEPT !.pc = "done", !.status = 400,
            !.body = [NoBody EXCEPT !.error = error],
            !.steps = Append(@, "response")]

LoginFailedText(provider) ==
  IF provider = "google" THEN "Google login failed" ELSE "GitHub login failed"

\* middleware/errorHandler.ts: what the global error handler makes of an
\* error handed to next(): the status code and the code of the AppError.
normalizeError(error) ==
  IF error.code = "23505"
  THEN [statusCode |-> 409, code |-> "CONFLICT"]
  ELSE IF error.code = "23503"
  THEN [statusCode |-> 400, code |-> "BAD_REQUEST"]
  ELSE IF error.code \in {"ECONNREFUSED", "ENOTFOUND"}
  THEN [statusCode |-> 503, code |-> "SERVICE_UNAVAILABLE"]
  ELSE [statusCode |-> 500, code |-> "INTERNAL_ERROR"]

\* A route that hands the error to next(error): the global handler answers.
Catch_Unhandled(r, error) ==
  [r EXCEPT !.pc = "done", !.err = error,
            !.status = normalizeError(error).statusCode,
            !.body = [NoBody EXCEPT !.error = normalizeError(error).code],
            !.steps = Append(@, "response")]

\* catch (error): clearOAuthStateCookie(res), then res.status(500).json of
\* the generic message, with the cause in development.
Catch(r, error) ==
  [r EXCEPT !.pc = "done", !.err = error, !.status = 500,
            !.body = [error |-> LoginFailedText(r.provider),
                      details |-> IF nodeEnv = "development"
                                  THEN error.message ELSE "",
                      user |-> {}],
            !.cleared = TRUE,
            !.steps = Append(@, "response")]

\* GET /auth/google and GET /auth/github: generate the state, set the
\* oauth_state cookie, redirect to the provider.
StartLogin ==
  /\ \E state \in OAuthStates \ stateIssued :
       /\ stateIssued' = stateIssued \cup {state}
       /\ jar' = {state}
  /\ seen' = {}
  /\ UNCHANGED <<req, tx, nodeEnv, now, sessionVars, accountVars>>

\* GET /auth/<provider>/callback up to its first await: the browser sends
\* the oauth_state cookie it holds.  A 400 is sent at once; a request that
\* passes queues the clearing of the cookie and calls the provider adapter.
Callback(p, provider, code, state) ==
  /\ req[p].pc = "idle"
  /\ LET storedState == jar
         r == [req[p] EXCEPT !.provider = provider]
     IN /\ seen' = Seen(p, "callback", code, state, storedState, NoReply)
        /\ req' = [req EXCEPT ![p] =
             IF Missing(code)
             THEN BadRequest(r, "Missing authorization code")
             ELSE IF Missing(state)
             THEN BadRequest(r, "Missing state parameter")
             ELSE IF InvalidState(storedState, state)
             THEN BadRequest(r, "Invalid state parameter")
             ELSE [r EXCEPT !.pc = "flow", !.checked = {state.value},
                            !.cleared = TRUE,
                            !.steps = <<"completeFlow">>]]
  /\ UNCHANGED <<tx, nodeEnv, jar, stateIssued, now, sessionVars, accountVars>>

Thrown(message) == [error |-> [message |-> message, code |-> ""],
                    profile |-> {}]
Returned(profile) == [error |-> NoError, profile |-> {profile}]

\* The adapter without the check of verified_email.
handleGoogleCallback_Unverified(reply) ==
  IF ~reply.tokenOk THEN Thrown("Failed to exchange Google code")
  ELSE IF ~reply.userOk THEN Thrown("Failed to fetch Google user profile")
  ELSE Returned([providerId |-> reply.id, email |-> reply.email,
                 name |-> reply.name, avatarUrl |-> reply.picture])

\* oauthGoogle.ts: exchangeGoogleCode, then getGoogleUserProfile
handleGoogleCallback(reply) ==
  IF ~reply.tokenOk THEN Thrown("Failed to exchange Google code")
  ELSE IF ~reply.userOk THEN Thrown("Failed to fetch Google user profile")
  ELSE IF ~reply.verified_email THEN Thrown("Google email is not verified")
  ELSE Returned([providerId |-> reply.id, email |-> reply.email,
                 name |-> reply.name, avatarUrl |-> reply.picture])

\* oauthGithub.ts: exchangeGitHubCode, then getGitHubUserProfile
handleGitHubCallback(reply) ==
  IF ~reply.tokenOk THEN Thrown("Failed to exchange GitHub code")
  ELSE IF ~reply.userOk THEN Thrown("Failed to fetch GitHub user profile")
  ELSE IF ~reply.verified_email
  THEN Thrown("No verified email found in GitHub account")
  ELSE Returned([providerId |-> reply.id, email |-> reply.email,
                 name |-> reply.name, avatarUrl |-> reply.picture])

\* The response leaves: the browser applies its Set-Cookie headers.
Delivered(r) == IF r.cleared THEN {} ELSE jar

\* await handle<Provider>Callback(code) settles: a throw goes to the catch,
\* a profile to findOrCreateUserFromOAuth.
CompleteFlow(p, reply) ==
  /\ req[p].pc = "flow"
  /\ seen' = Seen(p, "reply", Undefined, Undefined, {}, reply)
  /\ LET out == IF req[p].provider = "google"
                THEN handleGoogleCallback(reply)
                ELSE handleGitHubCallback(reply)
     IN IF out.profile = {}
        THEN /\ req' = [req EXCEPT ![p] = Catch(@, out.error)]
             /\ jar' = Delivered(req'[p])
        ELSE /\ req' = [req EXCEPT ![p] =
                  [@ EXCEPT !.pc = "connect",
                            !.params =
                              {[provider |-> req[p].provider,
                                providerUserId |-> profile.providerId,
                                email |-> profile.email,
                                name |-> profile.name,
                                avatarUrl |-> profile.avatarUrl] :
                               profile \in out.profile},
                            !.steps = Append(@, "reconcile")]]
             /\ UNCHANGED jar
  /\ UNCHANGED <<tx, nodeEnv, stateIssued, now, sessionVars, accountVars>>

----------------------------------------------------------------------------
(* auth/repo.ts: findOrCreateUserFromOAuth as the callback runs it, each   *)
(* request on its own connection.  The transactions run at PostgreSQL's    *)
(* default level, READ COMMITTED: a statement sees the committed rows and  *)
(* the writes of its own transaction; a write that meets an uncommitted    *)
(* row of another transaction under the same unique key, or an uncommitted *)
(* update of the same row, waits until that transaction ends.              *)

ReqParams(p) == CHOOSE x \in req[p].params : TRUE
ReqUser(p) == CHOOSE u \in req[p].user : TRUE

VisibleUsers(p) ==
  {u \in users : \A w \in tx[p].updated : w.id # u.id}
    \cup tx[p].updated \cup tx[p].users

\* A transaction whose own link is not among the rows it sees and commits.
VisibleAccounts_CommittedOnly(p) == oauth_accounts

\* The links a statement of request p sees: the committed rows and the
\* rows its own transaction has inserted.
VisibleAccounts(p) == oauth_accounts \cup tx[p].oauth_accounts

PendingUsers(p) == UNION {tx[q].users : q \in Procs \ {p}}
PendingUpdates(p) == UNION {tx[q].updated : q \in Procs \ {p}}
PendingAccounts(p) == UNION {tx[q].oauth_accounts : q \in Procs \ {p}}

\* A table without the unique index on email.
EmailTaken_NoIndex(rows, email) == FALSE

\* users.email VARCHAR(255) UNIQUE NOT NULL
EmailTaken(rows, email) == \E u \in rows : u.email = email

\* A table without the unique constraint on the identity.
IdentityTaken_NoIndex(rows, params) == FALSE

\* UNIQUE(provider, provider_user_id)
IdentityTaken(rows, params) ==
  \E a \in rows : /\ a.provider = params.provider
                  /\ a.provider_user_id = params.providerUserId

\* catch (error) inside findOrCreateUserFromOAuth.
TxCaught(p, error) ==
  req' = [req EXCEPT ![p] = [@ EXCEPT !.pc = "rollback", !.err = error]]

TxGoto(p, pc) == req' = [req EXCEPT ![p] = [@ EXCEPT !.pc = pc]]

\* const client = await pool.connect(): outside the try block, so a failure
\* goes straight to the catch of the route.
TxConnect(p, fail) ==
  /\ req[p].pc = "connect"
  /\ seen' = {}
  /\ IF fail
     THEN /\ req' = [req EXCEPT ![p] = Catch(@, DbError)]
          /\ jar' = Delivered(req'[p])
          /\ UNCHANGED tx
     ELSE /\ TxGoto(p, "begin")
          /\ tx' = [tx EXCEPT ![p].checkedOut = TRUE]
          /\ UNCHANGED jar
  /\ UNCHANGED <<nodeEnv, stateIssued, now, sessionVars, accountVars>>

\* await client.query('BEGIN')
TxBegin(p, fail) ==
  /\ req[p].pc = "begin"
  /\ seen' = {}
  /\ IF fail
     THEN TxCaught(p, DbError) /\ UNCHANGED tx
     ELSE TxGoto(p, "findAccount") /\ tx' = [tx EXCEPT ![p].inTx = TRUE]
  /\ UNCHANGED <<nodeEnv, jar, stateIssued, now, sessionVars, accountVars>>

\* SELECT * FROM oauth_accounts WHERE provider = $1 AND provider_user_id = $2
TxFindAccount(p, fail) ==
  /\ req[p].pc = "findAccount"
  /\ seen' = {}
  /\ IF fail
     THEN TxCaught(p, DbError)
     ELSE LET found == FindOAuthAccountRows(VisibleAccounts(p), ReqParams(p))
          IN req' = [req EXCEPT ![p] =
               [@ EXCEPT !.oauthAccount = found,
                         !.pc = IF found # {} THEN "selectUser"
                                ELSE "findByEmail"]]
  /\ UNCHANGED <<tx, nodeEnv, jar, stateIssued, now, sessionVars, accountVars>>

\* SELECT * FROM users WHERE id = $1; then if (params.name || params.avatarUrl)
TxSelectUser(p, fail) ==
  /\ req[p].pc = "selectUser"
  /\ seen' = {}
  /\ IF fail
     THEN TxCaught(p, DbError)
     ELSE LET found == {u \in VisibleUsers(p) :
                          \E a \in req[p].oauthAccount : u.id = a.user_id}
          IN req' = [req EXCEPT ![p] =
               [@ EXCEPT !.user = found,
                         !.pc = IF Truthy(ReqParams(p).name)
                                   \/ Truthy(ReqParams(p).avatarUrl)
                                THEN "update" ELSE "commit"]]
  /\ UNCHANGED <<tx, nodeEnv, jar, stateIssued, now, sessionVars, accountVars>>

\* UPDATE users SET name = COALESCE($2, name), avatar_url = COALESCE($3,
\* avatar_url), updated_at = NOW() WHERE id = $1 RETURNING *: waits for the
\* row lock, then writes the latest committed version of the row.
TxUpdate(p, fail) ==
  /\ req[p].pc = "update"
  /\ seen' = {}
  /\ IF fail
     THEN TxCaught(p, DbError) /\ UNCHANGED tx
     ELSE /\ \A w \in PendingUpdates(p) : w.id # ReqUser(p).id
          /\ LET updated ==
                   {[u EXCEPT !.name = COALESCE(ReqParams(p).name, @),
                              !.avatar_url = COALESCE(ReqParams(p).avatarUrl, @),
                              !.updated_at = now] :
                    u \in {v \in VisibleUsers(p) : v.id = ReqUser(p).id}}
             IN /\ tx' = [tx EXCEPT ![p].updated =
                            {w \in @ : w.id # ReqUser(p).id} \cup updated]
                /\ req' = [req EXCEPT ![p] =
                     [@ EXCEPT !.user = updated, !.pc = "commit"]]
  /\ UNCHANGED <<nodeEnv, jar, stateIssued, now, sessionVars, accountVars>>

\* SELECT * FROM users WHERE email = $1 LIMIT 1
TxFindByEmail(p, fail) ==
  /\ req[p].pc = "findByEmail"
  /\ seen' = {}
  /\ IF fail
     THEN TxCaught(p, DbError)
     ELSE LET existingUser ==
                FindUserByEmailRows(VisibleUsers(p), ReqParams(p).email)
          IN req' = [req EXCEPT ![p] =
               [@ EXCEPT !.user = existingUser,
                         !.pc = IF existingUser # {} THEN "insertLink"
                                ELSE "insertUser"]]
  /\ UNCHANGED <<tx, nodeEnv, jar, stateIssued, now, sessionVars, accountVars>>

\* INSERT INTO users (...) RETURNING *: waits while another transaction holds
\* an uncommitted row with the email, fails when a visible row has it.  The
\* sequence advances either way.
TxInsertUser(p, fail) ==
  /\ req[p].pc = "insertUser"
  /\ seen' = {}
  /\ IF fail
     THEN /\ TxCaught(p, DbError)
          /\ UNCHANGED <<tx, nextUserId>>
     ELSE /\ ~EmailTaken(PendingUsers(p), ReqParams(p).email)
          /\ nextUserId' = nextUserId + 1
          /\ IF EmailTaken(VisibleUsers(p), ReqParams(p).email)
             THEN /\ TxCaught(p, UniqueViolation)
                  /\ UNCHANGED tx
             ELSE LET created == [id |-> nextUserId,
                                  email |-> ReqParams(p).email,
                                  name |-> ReqParams(p).name,
                                  avatar_url |-> ReqParams(p).avatarUrl,
                                  created_at |-> now, updated_at |-> now]
                  IN /\ tx' = [tx EXCEPT ![p].users = @ \cup {created}]
                     /\ req' = [req EXCEPT ![p] =
                          [@ EXCEPT !.user = {created}, !.pc = "insertLink"]]
  /\ UNCHANGED <<users, oauth_accounts, client, rc, prev, calls, nodeEnv, jar,
                 stateIssued, now, sessionVars>>

\* INSERT INTO oauth_accounts (user_id, provider, provider_user_id, created_at):
\* waits while another transaction holds an uncommitted link of the identity.
TxInsertLink(p, fail) ==
  /\ req[p].pc = "insertLink"
  /\ seen' = {}
  /\ IF fail
     THEN TxCaught(p, DbError) /\ UNCHANGED tx
     ELSE /\ ~IdentityTaken(PendingAccounts(p), ReqParams(p))
          /\ IF ~ \E u \in VisibleUsers(p) : u.id = ReqUser(p).id
             THEN TxCaught(p, ForeignKeyViolation) /\ UNCHANGED tx
             ELSE IF IdentityTaken(VisibleAccounts(p), ReqParams(p))
             THEN TxCaught(p, UniqueViolation) /\ UNCHANGED tx
             ELSE /\ tx' = [tx EXCEPT ![p].oauth_accounts = @ \cup
                      {[user_id |-> ReqUser(p).id,
                        provider |-> ReqParams(p).provider,
                        provider_user_id |-> ReqParams(p).providerUserId,
                        created_at |-> now]}]
                  /\ TxGoto(p, "commit")
  /\ UNCHANGED <<nodeEnv, jar, stateIssued, now, sessionVars, accountVars>>

\* await client.query('COMMIT'): the writes of the transaction become the
\* committed rows.  A COMMIT that fails has committed nothing.
TxCommit(p, fail) ==
  /\ req[p].pc = "commit"
  /\ seen' = {}
  /\ IF fail
     THEN /\ TxCaught(p, DbError)
          /\ UNCHANGED <<tx, users, oauth_accounts>>
     ELSE /\ users' = VisibleUsers(p)
          /\ oauth_accounts' = VisibleAccounts(p)
          /\ tx' = [tx EXCEPT ![p] = [NoWrites EXCEPT !.checkedOut = TRUE]]
          /\ TxGoto(p, "release")
  /\ UNCHANGED <<nextUserId, client, rc, prev, calls, nodeEnv, jar,
                 stateIssued, now, sessionVars>>

\* catch (error) { await client.query('ROLLBACK'); throw error; }: the
\* writes are gone, also when the ROLLBACK fails with the connection.
TxRollback(p, fail) ==
  /\ req[p].pc = "rollback"
  /\ seen' = {}
  /\ tx' = [tx EXCEPT ![p] = [NoWrites EXCEPT !.checkedOut = TRUE]]
  /\ req' = [req EXCEPT ![p] =
       [@ EXCEPT !.pc = "release", !.err = IF fail THEN DbError ELSE @]]
  /\ UNCHANGED <<nodeEnv, jar, stateIssued, now, sessionVars, accountVars>>

\* finally { client.release(); }: a throw reaches the catch of the route, a
\* returned user goes to createUserSession(res, user.id).
TxRelease(p) ==
  /\ req[p].pc = "release"
  /\ seen' = {}
  /\ tx' = [tx EXCEPT ![p].checkedOut = FALSE]
  /\ IF req[p].err # NoError
     THEN /\ req' = [req EXCEPT ![p] = Catch(@, req[p].err)]
          /\ jar' = Delivered(req'[p])
     ELSE /\ req' = [req EXCEPT ![p] =
               [@ EXCEPT !.pc = "session", !.steps = Append(@, "session")]]
          /\ UNCHANGED jar
  /\ UNCHANGED <<nodeEnv, stateIssued, now, sessionVars, accountVars>>

\* A session made out to the user created last.
SessionOwner_Newest(p) == nextUserId - 1

\* createUserSession(res, user.id): the id handed over by the route.
SessionOwner(p) == ReqUser(p).id

\* await createUserSession(res, user.id) settles: the row is inserted and the
\* session cookie set, or the insert throws to the catch of the route.
IssueSession(p, dbUp) ==
  /\ req[p].pc = "session"
  /\ seen' = {}
  /\ \E sessionToken \in generateRandomToken :
       LET userId == SessionOwner(p)
           tokenHash == SessionTokenHash(sessionToken)
           expiresAt == ExpiresAt
       IN /\ generated' = generated \cup {sessionToken}
          /\ IF dbUp /\ SessionConstraintsOk(userId, tokenHash)
             THEN /\ sessions' = createSession(userId, tokenHash, expiresAt)
                  /\ issued' = [issued EXCEPT ![sessionToken] =
                                  [user |-> userId, at |-> now]]
                  /\ req' = [req EXCEPT ![p] =
                       [@ EXCEPT !.pc = "respond",
                                 !.cookie = {sessionToken}]]
                  /\ UNCHANGED jar
             ELSE /\ UNCHANGED <<sessions, issued>>
                  /\ req' = [req EXCEPT ![p] = Catch(@, DbError)]
                  /\ jar' = Delivered(req'[p])
  /\ UNCHANGED <<tx, nodeEnv, stateIssued, res, revoked, now, accountVars>>

\* The user as the success payload shows it.
Payload(u) == [id |-> u.id, email |-> u.email, name |-> u.name,
               avatar_url |-> u.avatar_url]

\* res.json({ success: true, user: {...} }): the response leaves with the
\* session cookie and the cleared oauth_state cookie.
Respond(p) ==
  /\ req[p].pc = "respond"
  /\ seen' = {}
  /\ req' = [req EXCEPT ![p] =
       [@ EXCEPT !.pc = "done", !.status = 200,
                 !.body = [NoBody EXCEPT !.user = {Payload(u) : u \in req[p].user}],
                 !.steps = Append(@, "response")]]
  /\ jar' = Delivered(req'[p])
  /\ UNCHANGED <<tx, nodeEnv, stateIssued, now, sessionVars, accountVars>>

----------------------------------------------------------------------------
(* Specifications *)

\* The store after schema.sql has run: every table empty.
Init ==
  /\ users = {}
  /\ oauth_accounts = {}
  /\ sessions = {}
  /\ now = 0
  /\ generated = {}
  /\ res = NoRes
  /\ issued = [t \in Tokens |-> [user |-> 0, at |-> 0]]
  /\ revoked = {}
  /\ nextUserId = 1
  /\ client = NoTx
  /\ rc = Idle
  /\ prev = {}
  /\ calls = 0
  /\ NoRequests
  /\ nodeEnv = "development"

\* The store after two users have signed up, one per provider.
SeedUsers ==
  {[id |-> 1, email |-> "a@x.com", name |-> "Ann", avatar_url |-> "pic",
    created_at |-> 0, updated_at |-> 0],
   [id |-> 2, email |-> "b@x.com", name |-> NULL, avatar_url |-> NULL,
    created_at |-> 0, updated_at |-> 0]}

SeedAccounts ==
  {[user_id |-> 1, provider |-> "google", provider_user_id |-> "p1",
    created_at |-> 0],
   [user_id |-> 2, provider |-> "github", provider_user_id |-> "p1",
    created_at |-> 0]}

InitSessions ==
  /\ users = SeedUsers
  /\ oauth_accounts = SeedAccounts
  /\ sessions = {}
  /\ now = 0
  /\ generated = {}
  /\ res = NoRes
  /\ issued = [t \in Tokens |-> [user |-> 0, at |-> 0]]
  /\ revoked = {}
  /\ nextUserId = 3
  /\ client = NoTx
  /\ rc = Idle
  /\ prev = {}
  /\ calls = 0
  /\ NoRequests
  /\ nodeEnv = "development"

\* The session manager: issue, validate, revoke, sweepExpired and the clock.
NextSessions ==
  \/ \E userId \in UserIds, dbUp \in BOOLEAN : CreateUserSession(userId, dbUp)
  \/ \E t \in {EmptyToken} \cup Tokens, dbUp \in BOOLEAN : ValidateSession(t, dbUp)
  \/ \E t \in {EmptyToken} \cup Tokens, dbUp \in BOOLEAN : RevokeSession(t, dbUp)
  \/ \E dbUp \in BOOLEAN : DeleteExpiredSessions(dbUp)
  \/ Tick

SessionSpec == InitSessions /\ [][NextSessions]_vars

\* Reconciliation: sequential calls of findOrCreateUserFromOAuth.
Next ==
  \/ \E params \in Params : ReconcileCall(params)
  \/ \E fail \in BOOLEAN : Connect(fail)
  \/ \E fail \in BOOLEAN : Begin(fail)
  \/ \E fail \in BOOLEAN : FindAccount(fail)
  \/ \E fail \in BOOLEAN : SelectUser(fail)
  \/ \E fail \in BOOLEAN : Update(fail)
  \/ \E fail \in BOOLEAN : FindByEmail(fail)
  \/ \E fail \in BOOLEAN : InsertUser(fail)
  \/ \E fail \in BOOLEAN : InsertLink(fail)
  \/ \E fail \in BOOLEAN : Commit(fail)
  \/ \E fail \in BOOLEAN : Rollback(fail)
  \/ Release

Spec == Init /\ [][Next]_vars

\* The server after start-up on an empty store, in any environment.
InitFlow ==
  /\ users = {}
  /\ oauth_accounts = {}
  /\ sessions = {}
  /\ now = 0
  /\ generated = {}
  /\ res = NoRes
  /\ issued = [t \in Tokens |-> [user |-> 0, at |-> 0]]
  /\ revoked = {}
  /\ nextUserId = 1
  /\ client = NoTx
  /\ rc = Idle
  /\ prev = {}
  /\ calls = 0
  /\ NoRequests
  /\ nodeEnv \in NodeEnvs

\* The OAuth routes: a start, and callbacks served concurrently.
NextFlow ==
  \/ StartLogin
  \/ \E p \in Procs, provider \in Providers, code \in CodeParams,
        state \in StateParams : Callback(p, provider, code, state)
  \/ \E p \in Procs, reply \in ProviderReplies : CompleteFlow(p, reply)
  \/ \E p \in Procs, fail \in BOOLEAN : TxConnect(p, fail)
  \/ \E p \in Procs, fail \in BOOLEAN : TxBegin(p, fail)
  \/ \E p \in Procs, fail \in BOOLEAN : TxFindAccount(p, fail)
  \/ \E p \in Procs, fail \in BOOLEAN : TxSelectUser(p, fail)
  \/ \E p \in Procs, fail \in BOOLEAN : TxUpdate(p, fail)
  \/ \E p \in Procs, fail \in BOOLEAN : TxFindByEmail(p, fail)
  \/ \E p \in Procs, fail \in BOOLEAN : TxInsertUser(p, fail)
  \/ \E p \in Procs, fail \in BOOLEAN : TxInsertLink(p, fail)
  \/ \E p \in Procs, fail \in BOOLEAN : TxCommit(p, fail)
  \/ \E p \in Procs, fail \in BOOLEAN : TxRollback(p, fail)
  \/ \E p \in Procs : TxRelease(p)
  \/ \E p \in Procs, dbUp \in BOOLEAN : IssueSession(p, dbUp)
  \/ \E p \in Procs : Respond(p)

FlowSpec == InitFlow /\ [][NextFlow]_vars

----------------------------------------------------------------------------
(* Properties of the session manager, checked under SessionSpec *)

WasIssued(t) == issued[t].user # 0
IsValid(t) == validateSession(t) # {}
RowsOf(t) == {s \in sessions : s.token_hash = hashToken(t)}

\* C1: a validate of a token that issue returned for user u, made before the
\* token's expiry and with no revoke of that token in between, returns
\* exactly u, whatever was done with other tokens meanwhile.
SessionRoundTrip ==
  (/\ res.op = "validate"
   /\ ~res.fault
   /\ res.arg \in Tokens
   /\ WasIssued(res.arg)
   /\ res.arg \notin revoked
   /\ now < issued[res.arg].at + expiryMs)
  => /\ ~res.err
     /\ Cardinality(res.user) = 1
     /\ \A u \in res.user : u.id = issued[res.arg].user

\* A token validated to its user after time has passed and after a revoke
\* and an issue for other tokens.
SessionRoundTripWitness ==
  /\ res.op = "validate"
  /\ res.user # {}
  /\ now > issued[res.arg].at
  /\ \E t \in revoked : t # res.arg /\ WasIssued(t)

\* C2: validate returns the owning user exactly when a row with the token's
\* hash exists and the time is before its expiry, none otherwise (none at
\* the instant of expiry); an empty token returns none without a lookup.
SessionValidIff ==
  (res.op = "validate" /\ ~res.fault) =>
     /\ ~res.err
     /\ IF res.arg = EmptyToken
        THEN res.user = {} /\ res.keys = {}
        ELSE res.user = {u \in users : \E s \in sessions :
                           /\ s.token_hash = hashToken(res.arg)
                           /\ s.user_id = u.id
                           /\ now < s.expires_at}

\* A validate at the very instant of expiry: the row is there, the answer
\* is none.
SessionValidIffWitness ==
  /\ res.op = "validate"
  /\ ~res.err
  /\ res.user = {}
  /\ \E s \in sessions : s.token_hash = hashToken(res.arg)
                         /\ s.expires_at = now

\* C3: a token that was issued and no longer validates never validates
\* again, and a session row is only ever inserted or deleted, never changed.
NoReturnToValid ==
  [][/\ \A t \in Tokens : (WasIssued(t) /\ ~IsValid(t)) => ~IsValid(t)'
     /\ \A s \in sessions' :
          s \in sessions \/ \A x \in sessions : x.token_hash # s.token_hash]_vars

\* A revoked token stays invalid while its user holds a newer valid session
\* and another token has expired.
NoReturnToValidWitness ==
  \E t \in revoked, t2 \in Tokens :
    /\ WasIssued(t) /\ ~IsValid(t)
    /\ WasIssued(t2) /\ issued[t2].user = issued[t].user
    /\ issued[t2].at > issued[t].at
    /\ IsValid(t2)
    /\ res.op = "sweep"

\* C4: revoke deletes exactly the row with the token's hash, after which the
\* token does not validate; with no such row it changes nothing and raises
\* no error; every other session stays as it was.
RevokeExact ==
  [][(res'.op = "revoke" /\ now' = now) =>
       /\ res'.err = res'.fault
       /\ res'.err => sessions' = sessions
       /\ ~res'.err =>
            /\ sessions' = sessions \ RowsOf(res'.arg)
            /\ \A t \in Tokens :
                 IF t = res'.arg
                 THEN ~IsValid(t)'
                 ELSE validateSession(t)' = validateSession(t)]_vars

\* A revoke that removed one of two valid sessions of the same user.
RevokeExactWitness ==
  /\ res.op = "revoke"
  /\ ~res.err
  /\ res.arg \in Tokens
  /\ WasIssued(res.arg)
  /\ now < issued[res.arg].at + expiryMs
  /\ \E t \in Tokens \ {res.arg} :
       issued[t].user = issued[res.arg].user /\ IsValid(t)

\* C5: issue adds exactly one row {userId, hash(token), expiry = now + 7 days}
\* and returns the raw token; every session valid before is valid after.
IssueAddsOneRow ==
  [][(res'.op = "issue" /\ now' = now) =>
       IF res'.err
       THEN sessions' = sessions /\ res'.token = {}
       ELSE /\ Cardinality(res'.token) = 1
            /\ Cardinality(sessions') = Cardinality(sessions) + 1
            /\ \A t \in res'.token :
                 sessions' = sessions \cup
                   {[user_id |-> res'.arg, token_hash |-> hashToken(t),
                     expires_at |-> now + 7 * 24 * 60 * 60 * 1000,
                     created_at |-> now]}
            /\ \A t \in Tokens :
                 IsValid(t) => validateSession(t)' = validateSession(t)]_vars

\* A second session issued to a user whose first session is still valid.
IssueAddsOneRowWitness ==
  /\ res.op = "issue"
  /\ ~res.err
  /\ \E t \in Tokens \ res.token :
       /\ issued[t].user = res.arg
       /\ IsValid(t)
       /\ \A t2 \in res.token : IsValid(t2)

\* C6: sweepExpired deletes exactly the rows with expiry <= now, keeps the
\* rows with now < expiry, and returns the number of rows deleted.
SweepDeletesExpired ==
  [][(res'.op = "sweep" /\ now' = now) =>
       IF res'.err
       THEN sessions' = sessions
       ELSE /\ sessions' = {s \in sessions : now < s.expires_at}
            /\ res'.count =
                 Cardinality({s \in sessions : s.expires_at <= now})]_vars

\* A sweep that deleted a row expiring at that very instant and kept another.
SweepDeletesExpiredWitness ==
  /\ res.op = "sweep"
  /\ res.count >= 1
  /\ sessions # {}
  /\ \E t \in Tokens : WasIssued(t) /\ issued[t].at + expiryMs = now
                       /\ t \notin revoked

\* C7: no session row holds a raw token, every row holds the digest of a
\* generated token, every query is keyed by the digest of the operation's
\* token, and the cookie set by issue holds the raw token, not its digest.
OnlyHashPersisted ==
  /\ \A s \in sessions :
       /\ s.token_hash \notin Tokens
       /\ s.token_hash \in Digests
       /\ \E t \in generated : s.token_hash = hashToken(t)
  /\ res.op \in {"validate", "revoke"} =>
       /\ res.keys \subseteq {hashToken(res.arg)}
       /\ res.arg \notin res.keys
  /\ res.op = "issue" =>
       /\ res.cookie = res.token
       /\ res.cookie \subseteq Tokens
       /\ \A t \in res.token : res.keys = {hashToken(t)}
       /\ ~res.err => \E s \in sessions, t \in res.cookie :
                        s.token_hash = hashToken(t)

\* A cookie that carries the raw token of a stored row.
OnlyHashPersistedWitness ==
  /\ res.op = "issue"
  /\ \E t \in res.cookie, s \in sessions :
       s.token_hash = hashToken(t) /\ s.token_hash # t

----------------------------------------------------------------------------
(* Properties of reconciliation, checked under Spec *)

Finished == rc.pc \in {"returned", "thrown"}
LinksOf(id) == {a \in oauth_accounts : a.user_id = id}
LinksFor(accounts, p) ==
  {a \in accounts : a.provider = p.provider
                     /\ a.provider_user_id = p.providerUserId}
PreLinked == LinksFor(rc.pre.oauth_accounts, TheParams)
PreByEmail == {u \in rc.pre.users : u.email = TheParams.email}

\* C8: a second call with the parameters of the call before it returns the
\* same user id and creates no user and no link; the two calls together
\* leave exactly one link for the identity, and exactly one user and one
\* link in all when the first call ran on an empty store.
ReconcileIdempotent ==
  \A q \in prev :
    (Finished /\ ~rc.fault /\ q.params = TheParams) =>
       /\ rc.pc = "returned"
       /\ TheUser.id = q.user
       /\ Cardinality(users) = Cardinality(rc.pre.users)
       /\ oauth_accounts = rc.pre.oauth_accounts
       /\ Cardinality(LinksFor(oauth_accounts, TheParams)) = 1
       /\ Cardinality(users) <= q.preUsers + 1
       /\ Cardinality(oauth_accounts) <= q.preLinks + 1
       /\ (q.preUsers = 0 /\ q.preLinks = 0) =>
            Cardinality(users) = 1 /\ Cardinality(oauth_accounts) = 1

\* Two identical calls on an empty store have both returned.
ReconcileIdempotentWitness ==
  /\ rc.pc = "returned"
  /\ \E q \in prev : q.params = TheParams /\ q.user = TheUser.id
                     /\ q.preUsers = 0
  /\ Cardinality(users) = 1
  /\ Cardinality(oauth_accounts) = 1

\* C9: a login through an identity that has no link, reporting the email of
\* an existing user, returns that user and adds exactly one link to it: no
\* second user appears.
ReconcileMerge ==
  (Finished /\ ~rc.fault /\ PreLinked = {} /\ PreByEmail # {}) =>
     /\ rc.pc = "returned"
     /\ rc.user = PreByEmail
     /\ Cardinality(users) = Cardinality(rc.pre.users)
     /\ \E a \in oauth_accounts \ rc.pre.oauth_accounts :
          /\ oauth_accounts = rc.pre.oauth_accounts \cup {a}
          /\ a.user_id = TheUser.id
          /\ a.provider = TheParams.provider
          /\ a.provider_user_id = TheParams.providerUserId

\* A GitHub login merged into the user a Google login created, under another
\* subject id: one user, two links.
ReconcileMergeWitness ==
  /\ rc.pc = "returned"
  /\ TheParams.provider = "github"
  /\ Cardinality(users) = 1
  /\ Cardinality(LinksOf(TheUser.id)) = 2
  /\ \E a \in rc.pre.oauth_accounts :
       /\ a.provider = "google"
       /\ a.provider_user_id # TheParams.providerUserId
       /\ a.user_id = TheUser.id

\* C10: a call that raises leaves the stored users and links as they were
\* when it was made and its transaction closed; in every state each user has
\* a link and each link has its user.
ReconcileAtomic ==
  /\ rc.pc = "thrown" =>
       /\ users = rc.pre.users
       /\ oauth_accounts = rc.pre.oauth_accounts
       /\ ~client.inTx
  /\ \A u \in users : LinksOf(u.id) # {}
  /\ \A a \in oauth_accounts : \E u \in users : u.id = a.user_id

\* A call raised after the insert of its link failed: the user it had
\* inserted is not stored.
ReconcileAtomicWitness ==
  /\ rc.pc = "thrown"
  /\ rc.begun
  /\ rc.failedAt = "insertLink"
  /\ rc.user # {}
  /\ rc.user \cap users = {}
  /\ users # {}

----------------------------------------------------------------------------
(* Properties of the OAuth routes, checked under FlowSpec *)

Done(p) == req[p].pc = "done"
SameIdentity(a, b) ==
  a.provider = b.provider /\ a.provider_user_id = b.provider_user_id
LostRace(p) == req[p].err.code = "23505"
FlowSteps == <<"completeFlow", "reconcile", "session">>

\* C11: under every interleaving of the reconcile transactions of two
\* logins, the committed links hold at most one row for a (provider,
\* provider id) pair, and that row points to exactly one user.
OneLinkPerIdentity ==
  /\ \A a, b \in oauth_accounts : SameIdentity(a, b) => a = b
  /\ \A a \in oauth_accounts :
       Cardinality({u \in users : u.id = a.user_id}) = 1

\* Two logins of one new identity raced: one was answered 200, the other
\* lost on the unique constraint, and the identity has its one link.
OneLinkPerIdentityWitness ==
  \E p, q \in Procs :
    /\ req[p].status = 200
    /\ Done(q) /\ LostRace(q)
    /\ \A x \in req[p].params, y \in req[q].params :
         /\ x.provider = y.provider
         /\ x.providerUserId = y.providerUserId
         /\ x.email # y.email
         /\ Cardinality({a \in oauth_accounts :
                           /\ a.provider = x.provider
                           /\ a.provider_user_id = x.providerUserId}) = 1

\* C12: in every state, under every interleaving of the reconcile
\* transactions, no two users share an email and every user has a link.
EmailUnique ==
  /\ \A u, v \in users : u.email = v.email => u = v
  /\ \A u \in users : \E a \in oauth_accounts : a.user_id = u.id

\* A Google login and a GitHub login reporting one new email raced: one was
\* answered 200, the other lost on the unique email, one user is stored.
EmailUniqueWitness ==
  \E p, q \in Procs :
    /\ req[p].status = 200
    /\ Done(q) /\ LostRace(q)
    /\ \A x \in req[p].params, y \in req[q].params :
         x.provider # y.provider /\ x.email = y.email
    /\ Cardinality(users) = 1
    /\ Cardinality(oauth_accounts) = 1

\* C13: a login whose reconcile transaction raised a unique-constraint
\* violation is answered with the Conflict outcome (409), not with an
\* unclassified internal error.
UniqueViolationIsConflict ==
  \A p \in Procs :
    (Done(p) /\ LostRace(p)) =>
       /\ normalizeError(req[p].err).code = "CONFLICT"
       /\ req[p].status = normalizeError(req[p].err).statusCode

\* C14: a callback whose state parameter differs from the oauth_state cookie,
\* or that carries no such cookie, is answered 400, creates no session, no
\* user and no link, and sets no session cookie.
CsrfRejected ==
  [][\A c \in seen' :
       (/\ c.kind = "callback"
        /\ \/ c.cookie = {}
           \/ \A s \in c.cookie : c.state # Str(s))
       => /\ req'[c.p].pc = "done"
          /\ req'[c.p].status = 400
          /\ req'[c.p].cookie = {}
          /\ users' = users
          /\ oauth_accounts' = oauth_accounts
          /\ sessions' = sessions]_vars

\* A callback with a code and a non-empty state other than the one in the
\* cookie it carried has been answered 400.
CsrfRejectedWitness ==
  \E c \in seen :
    /\ c.kind = "callback"
    /\ c.code = Str(1)
    /\ c.cookie # {}
    /\ c.state.type = "string"
    /\ c.state.value # 0
    /\ c.state.value \notin c.cookie
    /\ req[c.p].status = 400
    /\ req[c.p].body.error = "Invalid state parameter"

\* C15: a callback with a missing or non-string code, a missing or
\* non-string state, no state cookie or another state than the cookie's is
\* answered 400 before any call of the provider and any access to the store:
\* no exchange, no profile fetch, no reconcile, no session issuance.
ValidationShortCircuits ==
  [][\A c \in seen' :
       (/\ c.kind = "callback"
        /\ \/ c.code.type # "string" \/ c.code.value = 0
           \/ c.state.type # "string" \/ c.state.value = 0
           \/ c.cookie = {}
           \/ c.state.value \notin c.cookie)
       => /\ req'[c.p].pc = "done"
          /\ req'[c.p].status = 400
          /\ req'[c.p].steps = <<"response">>
          /\ tx' = tx
          /\ UNCHANGED <<users, oauth_accounts, sessions, nextUserId,
                         generated>>]_vars

\* A callback whose code is not a string, with the state of its cookie, has
\* been answered 400 for the code.
ValidationShortCircuitsWitness ==
  \E c \in seen :
    /\ c.kind = "callback"
    /\ c.code = NonString
    /\ c.state.type = "string"
    /\ c.state.value \in c.cookie
    /\ req[c.p].status = 400
    /\ req[c.p].body.error = "Missing authorization code"
    /\ req[c.p].steps = <<"response">>

\* C16: the response to every callback clears the oauth_state cookie,
\* whatever the outcome.
StateCookieCleared ==
  \A p \in Procs : Done(p) => req[p].cleared

\* C17: at most one callback passes the state check with a state that a
\* start issued, replays and concurrent callbacks included.
StateOneTime ==
  \A s \in stateIssued :
    Cardinality({p \in Procs : req[p].checked = {s}}) <= 1

\* C18: a callback that passed the state check calls completeFlow, then
\* reconcile, then session issuance, then responds; a 200 is sent only once
\* the session row is stored and the session cookie set, and the user of the
\* payload owns the session of the token in the cookie.
CallbackOrder ==
  \A p \in Procs :
    /\ req[p].checked # {} =>
         \E n \in 1..3 :
           \/ req[p].steps = SubSeq(FlowSteps, 1, n)
           \/ req[p].steps = Append(SubSeq(FlowSteps, 1, n), "response")
    /\ req[p].pc \in {"session", "respond"} =>
         \E u \in users, a \in oauth_accounts :
           u.id = ReqUser(p).id /\ a.user_id = u.id
    /\ req[p].cookie # {} =>
         \A t \in req[p].cookie :
           \E s \in sessions : s.token_hash = hashToken(t)
    /\ req[p].status = 200 =>
         /\ req[p].steps = Append(FlowSteps, "response")
         /\ Cardinality(req[p].cookie) = 1
         /\ Cardinality(req[p].body.user) = 1
         /\ \A t \in req[p].cookie, u \in req[p].body.user :
              \E s \in sessions :
                s.token_hash = hashToken(t) /\ s.user_id = u.id

\* Two logins of two users have both been answered 200, each with its own
\* session.
CallbackOrderWitness ==
  \E p, q \in Procs :
    /\ req[p].status = 200
    /\ req[q].status = 200
    /\ req[p].cookie # req[q].cookie
    /\ req[p].body.user # req[q].body.user
    /\ Cardinality(sessions) = 2

\* C19: every failure of the code exchange, the profile fetch or the
\* verification is answered 500 with the generic message of the provider;
\* the cause is in the response in every environment but production, and
\* not in production.
LoginFailureResponse ==
  \A e \in seen :
    (/\ e.kind = "reply"
     /\ ~(e.reply.tokenOk /\ e.reply.userOk /\ e.reply.verified_email))
    => /\ req[e.p].status = 500
       /\ req[e.p].body.error \in {"Google login failed", "GitHub login failed"}
       /\ nodeEnv = "production" => req[e.p].body.details = ""
       /\ nodeEnv # "production" =>
            /\ req[e.p].body.details # ""
            /\ req[e.p].body.details = req[e.p].err.message

\* C20: a Google callback whose profile reports verified_email false fails
\* with the email-verification error; reconcile and session issuance are not
\* called, and no user, link or session is created.
UnverifiedGoogleRejected ==
  [][\A e \in seen' :
       (/\ e.kind = "reply"
        /\ req[e.p].provider = "google"
        /\ e.reply.tokenOk /\ e.reply.userOk
        /\ ~e.reply.verified_email)
       => /\ req'[e.p].pc = "done"
          /\ req'[e.p].status = 500
          /\ req'[e.p].err.message = "Google email is not verified"
          /\ req'[e.p].steps = <<"completeFlow", "response">>
          /\ req'[e.p].cookie = {}
          /\ tx' = tx
          /\ UNCHANGED <<users, oauth_accounts, sessions, nextUserId>>]_vars

\* A Google login with an unverified email has been answered 500 while
\* another login had created a user.
UnverifiedGoogleRejectedWitness ==
  \E e \in seen :
    /\ e.kind = "reply"
    /\ req[e.p].provider = "google"
    /\ e.reply.userOk
    /\ ~e.reply.verified_email
    /\ req[e.p].status = 500
    /\ users # {}
    /\ \A u \in users : u.email = e.reply.email

----------------------------------------------------------------------------
(* Reconciliation of a linked identity, checked under Spec *)

\* C30: a call that finds the link of its identity returns the linked user
\* and creates no user and no link; name and avatar are each overwritten
\* with the supplied value iff that value is non-empty and keep their stored
\* value otherwise; updated_at is set iff one of the two was supplied
\* non-empty, and the row is unchanged otherwise.
LinkedLoginUpdates ==
  (Finished /\ ~rc.fault /\ PreLinked # {}) =>
     \E a \in PreLinked, old \in rc.pre.users :
       /\ old.id = a.user_id
       /\ rc.pc = "returned"
       /\ TheUser.id = old.id
       /\ users = (rc.pre.users \ {old}) \cup {TheUser}
       /\ oauth_accounts = rc.pre.oauth_accounts
       /\ TheUser.email = old.email
       /\ TheUser.created_at = old.created_at
       /\ TheUser.name = IF Truthy(TheParams.name)
                         THEN TheParams.name ELSE old.name
       /\ TheUser.avatar_url = IF Truthy(TheParams.avatarUrl)
                               THEN TheParams.avatarUrl ELSE old.avatar_url
       /\ TheUser.updated_at =
            IF Truthy(TheParams.name) \/ Truthy(TheParams.avatarUrl)
            THEN now ELSE old.updated_at

----------------------------------------------------------------------------
(* auth/routes.ts: requireAuth, GET /auth/me and POST /auth/logout.      *)
(* cookie is req.cookies[config.session.cookieName]: {} when the request *)
(* carries none, {t} when it carries the value t.  Each handler has one  *)
(* await, so a request is one step; dbUp = FALSE is a failing pool.query. *)

\* The response of a session route: the cookie it was sent with, whether
\* requireAuth called next() and whether the session cookie was cleared.
Response(kind, cookie, status, error, success, user, handled, cleared) ==
  {[kind |-> kind, cookie |-> cookie, status |-> status, error |-> error,
    success |-> success, user |-> user, handled |-> handled,
    cleared |-> cleared]}

\* if (!sessionToken): no cookie, or a cookie with an empty value
NoSessionToken(cookie) == \A t \in cookie : t = EmptyToken

\* A guard that lets a request through whatever validateSession returned.
Unauthenticated_Never(user) == FALSE

\* if (!user)
Unauthenticated(user) == user = {}

\* res.json({ id, email, name, avatar_url, created_at }) of GET /auth/me
MePayload(user) ==
  [id |-> user.id, email |-> user.email, name |-> user.name,
   avatar_url |-> user.avatar_url, created_at |-> user.created_at]

\* router.get('/me', requireAuth, handler)
Me(cookie, dbUp) ==
  /\ IF NoSessionToken(cookie)
     THEN /\ res' = Res("me", EmptyToken, {}, {}, {}, 0, FALSE, FALSE, {}, FALSE)
          /\ seen' = Response("me", cookie, 401, "Unauthorized", FALSE, {},
                              FALSE, FALSE)
     ELSE \E sessionToken \in cookie :
            IF ~dbUp
            THEN /\ res' = Res("me", sessionToken, {hashToken(sessionToken)},
                               {}, {}, 0, TRUE, TRUE, {}, FALSE)
                 /\ seen' = Response("me", cookie, 500, "Authentication failed",
                                     FALSE, {}, FALSE, FALSE)
            ELSE LET user == validateSession(sessionToken)
                 IN /\ res' = Res("me", sessionToken, {hashToken(sessionToken)},
                                  user, {}, 0, FALSE, FALSE, {}, FALSE)
                    /\ seen' = IF Unauthenticated(user)
                               THEN Response("me", cookie, 401,
                                             "Invalid or expired session",
                                             FALSE, {}, FALSE, FALSE)
                               ELSE Response("me", cookie, 200, "", FALSE,
                                             {MePayload(u) : u \in user},
                                             TRUE, FALSE)
  /\ UNCHANGED <<sessions, generated, issued, revoked, now, accountVars,
                 req, tx, nodeEnv, jar, stateIssued>>

\* if (sessionToken) { await revokeSession(res, sessionToken); }
LogoutRevokes(cookie) == ~NoSessionToken(cookie)

\* router.post('/logout', handler)
Logout(cookie, dbUp) ==
  /\ IF ~LogoutRevokes(cookie)
     THEN /\ res' = Res("logout", EmptyToken, {}, {}, {}, 0, FALSE, FALSE,
                        {}, FALSE)
          /\ seen' = Response("logout", cookie, 200, "", TRUE, {}, TRUE, FALSE)
          /\ UNCHANGED <<sessions, revoked>>
     ELSE \E sessionToken \in cookie :
            LET tokenHash == hashToken(sessionToken)
            IN IF dbUp
               THEN /\ sessions' = deleteSessionByTokenHash(tokenHash)
                    /\ revoked' = IF issued[sessionToken].user # 0
                                  THEN revoked \cup {sessionToken}
                                  ELSE revoked
                    /\ res' = Res("logout", sessionToken, {tokenHash}, {}, {},
                                  0, FALSE, FALSE, {}, TRUE)
                    /\ seen' = Response("logout", cookie, 200, "", TRUE, {},
                                        TRUE, TRUE)
               ELSE /\ UNCHANGED <<sessions, revoked>>
                    /\ res' = Res("logout", sessionToken, {tokenHash}, {}, {},
                                  0, TRUE, TRUE, {}, FALSE)
                    /\ seen' = Response("logout", cookie, 500, "Logout failed",
                                        FALSE, {}, TRUE, FALSE)
  /\ UNCHANGED <<generated, issued, now, accountVars,
                 req, tx, nodeEnv, jar, stateIssued>>

\* The cookies a request to a session route can carry.
SessionCookies == {{}} \cup {{t} : t \in {EmptyToken} \cup Tokens}

\* The session routes, with completed logins issuing sessions and the clock.
NextRoutes ==
  \/ \E u \in users : CreateUserSession(u.id, TRUE)
  \/ \E cookie \in SessionCookies, dbUp \in BOOLEAN : Me(cookie, dbUp)
  \/ \E cookie \in SessionCookies, dbUp \in BOOLEAN : Logout(cookie, dbUp)
  \/ Tick

RouteSpec == InitSessions /\ [][NextRoutes]_vars

\* The last step answered a request to a session route.
Answered(kind) == res.op = kind /\ \E e \in seen : e.kind = kind

\* The users a cookie authenticates now: the owner of a stored session
\* whose digest is that of the cookie's token and which has not expired.
Authenticated(cookie) ==
  {u \in users : \E t \in cookie, s \in sessions :
     /\ t # EmptyToken
     /\ s.token_hash = hashToken(t)
     /\ s.user_id = u.id
     /\ now < s.expires_at}

\* C22: GET /auth/me answers 401 without running the handler when the
\* request has no session cookie or its token is unknown, revoked or
\* expired, and answers the id, email, name, avatar and creation time of
\* the session's owner when the session is valid; the handler runs only
\* after validation returned a user.
MeAuthenticated ==
  \A e \in seen :
    (Answered("me") /\ ~res.fault) =>
      /\ e.handled <=> res.user # {}
      /\ \A t \in e.cookie :
           (t = EmptyToken \/ ~WasIssued(t) \/ t \in revoked
            \/ now >= issued[t].at + expiryMs) => e.status = 401
      /\ IF Authenticated(e.cookie) = {}
         THEN e.status = 401 /\ ~e.handled /\ e.user = {}
         ELSE /\ e.status = 200
              /\ e.handled
              /\ e.user = {[id |-> u.id, email |-> u.email, name |-> u.name,
                            avatar_url |-> u.avatar_url,
                            created_at |-> u.created_at] :
                           u \in Authenticated(e.cookie)}
              /\ \A u \in Authenticated(e.cookie), t \in e.cookie :
                   u.id = issued[t].user

\* A valid session answered with its owner's data after a 401 was possible:
\* another token has been revoked and time has passed.
MeAuthenticatedWitness ==
  /\ Answered("me")
  /\ \E e \in seen : e.status = 200 /\ e.handled /\ e.user # {}
  /\ revoked # {}
  /\ now > 0

\* C23: two failing requests to an authenticated route get the same status
\* and the same body, whether the cookie was missing or its token unknown,
\* revoked or expired.
AuthFailuresAlike ==
  [][\A e \in seen, f \in seen' :
       (/\ res.op = "me" /\ e.kind = "me" /\ e.status = 401
        /\ res'.op = "me" /\ f.kind = "me" /\ f.status = 401)
       => f.error = e.error]_vars

\* C24: POST /auth/logout answers 200 with or without a session cookie; a
\* session the cookie names is gone afterwards and the cookie is cleared.
LogoutAlwaysOk ==
  \A e \in seen :
    Answered("logout") =>
      /\ e.status = 200
      /\ \A t \in e.cookie :
           t # EmptyToken =>
             /\ e.cleared
             /\ \A s \in sessions : s.token_hash # hashToken(t)

\* C26: a request to a session route during which the store cannot be
\* reached ends with the service-unavailable status.
StoreDownIsUnavailable ==
  \A e \in seen :
    ((Answered("me") \/ Answered("logout")) /\ res.fault) => e.status = 503

----------------------------------------------------------------------------
(* The callback under the scheduling of Node and PostgreSQL.  A handler    *)
(* whose awaited database call has settled is resumed by the event loop,   *)
(* and the database settles every call it is sent.  The provider's answer  *)
(* is the provider's step: fetch is called without a signal or a timer     *)
(* (oauthGoogle.ts 62, 91; oauthGithub.ts 65, 90, 114), so nothing in the  *)
(* handler runs until that answer has arrived in full.                     *)

\* The steps of request p that the server and its database take.
HandlerStep(p) ==
  \/ \E fail \in BOOLEAN : TxConnect(p, fail)
  \/ \E fail \in BOOLEAN : TxBegin(p, fail)
  \/ \E fail \in BOOLEAN : TxFindAccount(p, fail)
  \/ \E fail \in BOOLEAN : TxSelectUser(p, fail)
  \/ \E fail \in BOOLEAN : TxUpdate(p, fail)
  \/ \E fail \in BOOLEAN : TxFindByEmail(p, fail)
  \/ \E fail \in BOOLEAN : TxInsertUser(p, fail)
  \/ \E fail \in BOOLEAN : TxInsertLink(p, fail)
  \/ \E fail \in BOOLEAN : TxCommit(p, fail)
  \/ \E fail \in BOOLEAN : TxRollback(p, fail)
  \/ TxRelease(p)
  \/ \E dbUp \in BOOLEAN : IssueSession(p, dbUp)
  \/ Respond(p)

FlowLiveSpec ==
  InitFlow /\ [][NextFlow]_vars /\ \A p \in Procs : WF_vars(HandlerStep(p))

\* C25: every callback that has called the provider is answered in the
\* end, also when the provider's token or profile endpoint never answers.
CallbackResponds ==
  \A p \in Procs : (req[p].pc = "flow") ~> (req[p].pc = "done")

----------------------------------------------------------------------------
(* auth/oauthGithub.ts: what getGitHubUserProfile makes of the answers of  *)
(* the user and the emails endpoints.                                      *)

MaxEmails == 2

\* GitHubUserEmail, as far as the adapter reads it
GitHubUserEmails == [email : Emails, primary : BOOLEAN, verified : BOOLEAN]

\* The answers of /user/emails: lists of at most MaxEmails entries.
GitHubEmailLists ==
  UNION {[1..n -> GitHubUserEmails] : n \in 0..MaxEmails}

\* GitHubUserProfile: name is a string or null, login is always there.
GitHubUserInfos ==
  [id : {"p1"}, login : {"ann"}, name : Names, avatar_url : {"pic"}]

\* A search that is satisfied with the primary flag.
find_PrimaryOnly(emails) ==
  LET hits == {i \in 1..Len(emails) : emails[i].primary}
  IN {emails[i] : i \in {j \in hits : \A k \in hits : j <= k}}

\* emails.find((email) => email.primary && email.verified): the first
\* entry with both flags, {} for undefined.
find(emails) ==
  LET hits == {i \in 1..Len(emails) : emails[i].primary /\ emails[i].verified}
  IN {emails[i] : i \in {j \in hits : \A k \in hits : j <= k}}

\* userInfo.name || userInfo.login
DisplayName(userInfo) ==
  IF Truthy(userInfo.name) THEN userInfo.name ELSE userInfo.login

\* The answers of the two endpoints as handleGitHubCallback gets them: the
\* outcome of the search and of the name fallback, next to the answers.
GitHubAnswer(userInfo, emails) ==
  [tokenOk |-> TRUE, userOk |-> TRUE,
   verified_email |-> find(emails) # {},
   id |-> userInfo.id,
   email |-> IF find(emails) = {} THEN ""
             ELSE (CHOOSE primaryEmail \in find(emails) : TRUE).email,
   name |-> DisplayName(userInfo),
   picture |-> userInfo.avatar_url,
   userInfo |-> userInfo, emails |-> emails]

\* await handleGitHubCallback(code) settles after both endpoints answered.
CompleteGitHubFlow(p, userInfo, emails) ==
  /\ req[p].pc = "flow"
  /\ req[p].provider = "github"
  /\ CompleteFlow(p, GitHubAnswer(userInfo, emails))

\* GET /auth/github/callback of the one login that is under way.
GitHubCallback(p, code, state) ==
  /\ \A o \in Procs : req[o].pc = "idle"
  /\ Callback(p, "github", code, state)

\* A GitHub login with every answer of the user and emails endpoints.
NextGitHub ==
  \/ StartLogin
  \/ \E p \in Procs, code \in CodeParams, state \in StateParams :
       GitHubCallback(p, code, state)
  \/ \E p \in Procs, userInfo \in GitHubUserInfos, emails \in GitHubEmailLists :
       CompleteGitHubFlow(p, userInfo, emails)
  \/ \E p \in Procs : HandlerStep(p)

\* The store is empty, or holds the two users who signed up earlier.
InitGitHub == InitFlow \/ InitSessions

GitHubSpec == InitGitHub /\ [][NextGitHub]_vars

\* C21: the GitHub adapter returns as email an entry of the list flagged
\* primary and verified; when no entry has both flags the login fails with
\* the no-verified-email error and creates no user, link or session; the
\* name is the profile's name, or the login handle when no name is set.
GitHubProfileSelection ==
  [][\A e \in seen' :
       (e.kind = "reply" /\ req[e.p].provider = "github")
       => LET r == req'[e.p]
              qualified == {i \in 1..Len(e.reply.emails) :
                              /\ e.reply.emails[i].primary
                              /\ e.reply.emails[i].verified}
          IN IF qualified = {}
             THEN /\ r.pc = "done"
                  /\ r.status = 500
                  /\ r.err.message = "No verified email found in GitHub account"
                  /\ r.steps = <<"completeFlow", "response">>
                  /\ r.cookie = {}
                  /\ tx' = tx
                  /\ UNCHANGED <<users, oauth_accounts, sessions, nextUserId>>
             ELSE /\ r.pc = "connect"
                  /\ r.params # {}
                  /\ \A q \in r.params :
                       /\ \E i \in qualified : q.email = e.reply.emails[i].email
                       /\ q.name = IF e.reply.userInfo.name \in {NULL, ""}
                                   THEN e.reply.userInfo.login
                                   ELSE e.reply.userInfo.name]_vars

\* A login with no name set, whose list holds a primary unverified address
\* before a primary verified one, goes on with the second entry and the
\* login handle.
GitHubProfileSelectionWitness ==
  \E p \in Procs, e \in seen :
    /\ e.kind = "reply" /\ e.p = p
    /\ req[p].pc = "connect"
    /\ Len(e.reply.emails) = 2
    /\ e.reply.emails[1].primary /\ ~e.reply.emails[1].verified
    /\ e.reply.emails[2].primary /\ e.reply.emails[2].verified
    /\ e.reply.emails[2].email # e.reply.emails[1].email
    /\ e.reply.userInfo.name = NULL
    /\ \A q \in req[p].params :
         q.email = e.reply.emails[2].email /\ q.name = "ann"

----------------------------------------------------------------------------
(* utils/crypto.ts as functions of their arguments.  A string is the      *)
(* sequence of its UTF-16 code units, a Buffer the sequence of its bytes. *)

MaxLen == 2
MaxBytes == 3
MaxSamples == 2

\* crypto.randomBytes(bytes): any bytes; the values kept here give the
\* sextets 0, 62 and 63 among others.
Bytes == {0, 248, 255}
randomBytes(bytes) == [1..bytes -> Bytes]

\* The alphabet of RFC 4648 section 4, with '+' and '/'.
Base64Alphabet_Standard ==
  <<"A", "B", "C", "D", "E", "F", "G", "H", "I", "J", "K", "L", "M",
    "N", "O", "P", "Q", "R", "S", "T", "U", "V", "W", "X", "Y", "Z",
    "a", "b", "c", "d", "e", "f", "g", "h", "i", "j", "k", "l", "m",
    "n", "o", "p", "q", "r", "s", "t", "u", "v", "w", "x", "y", "z",
    "0", "1", "2", "3", "4", "5", "6", "7", "8", "9", "+", "/">>

\* The alphabet of 'base64url' (RFC 4648 section 5)
Base64Alphabet ==
  <<"A", "B", "C", "D", "E", "F", "G", "H", "I", "J", "K", "L", "M",
    "N", "O", "P", "Q", "R", "S", "T", "U", "V", "W", "X", "Y", "Z",
    "a", "b", "c", "d", "e", "f", "g", "h", "i", "j", "k", "l", "m",
    "n", "o", "p", "q", "r", "s", "t", "u", "v", "w", "x", "y", "z",
    "0", "1", "2", "3", "4", "5", "6", "7", "8", "9", "-", "_">>

Sextet(n) == Base64Alphabet[n + 1]

\* buffer.toString('base64url'): three bytes give four characters, a rest
\* of one or two bytes gives two or three, and no padding is written.
RECURSIVE toBase64Url(_)
toBase64Url(buf) ==
  IF Len(buf) = 0 THEN <<>>
  ELSE IF Len(buf) = 1
  THEN <<Sextet(buf[1] \div 4), Sextet((buf[1] % 4) * 16)>>
  ELSE IF Len(buf) = 2
  THEN <<Sextet(buf[1] \div 4),
         Sextet(((buf[1] % 4) * 16) + (buf[2] \div 16)),
         Sextet((buf[2] % 16) * 4)>>
  ELSE <<Sextet(buf[1] \div 4),
         Sextet(((buf[1] % 4) * 16) + (buf[2] \div 16)),
         Sextet(((buf[2] % 16) * 4) + (buf[3] \div 64)),
         Sextet(buf[3] % 64)>> \o toBase64Url(SubSeq(buf, 4, Len(buf)))

\* The digits of digest('hex')
HexDigits ==
  <<"0", "1", "2", "3", "4", "5", "6", "7", "8", "9",
    "a", "b", "c", "d", "e", "f">>

\* A byte written without its leading zero.
HexByte_Unpadded(b) ==
  IF b < 16 THEN <<HexDigits[b + 1]>>
  ELSE <<HexDigits[(b \div 16) + 1], HexDigits[(b % 16) + 1]>>

\* Two digits per byte.
HexByte(b) == <<HexDigits[(b \div 16) + 1], HexDigits[(b % 16) + 1]>>

RECURSIVE toHex(_)
toHex(buf) ==
  IF Len(buf) = 0 THEN <<>> ELSE HexByte(Head(buf)) \o toHex(Tail(buf))

\* SHA-256 gives 32 bytes.
DigestBytes == 32

\* crypto.createHash('sha256').update(input): the 32 bytes of the digest
\* that hashToken stands for, different for different digests.
createHash(input) ==
  [i \in 1..DigestBytes |-> (hashToken(input) * i) % 256]

\* hashToken(input) as the string it returns: .digest('hex')
hashTokenHex(input) == toHex(createHash(input))

\* Code units: 'a', 'b', U+00E9, a high and a low surrogate, U+FFFD.
CodeUnits == {97, 98, 233, 55357, 56832, 65533}
Strings == UNION {[1..n -> CodeUnits] : n \in 0..MaxLen}

HighSurrogate(c) == 55296 <= c /\ c <= 56319
LowSurrogate(c) == 56320 <= c /\ c <= 57343

\* The UTF-8 bytes of a code point.
Utf8(cp) ==
  IF cp < 128 THEN <<cp>>
  ELSE IF cp < 2048 THEN <<192 + (cp \div 64), 128 + (cp % 64)>>
  ELSE IF cp < 65536
  THEN <<224 + (cp \div 4096), 128 + ((cp \div 64) % 64), 128 + (cp % 64)>>
  ELSE <<240 + (cp \div 262144), 128 + ((cp \div 4096) % 64),
         128 + ((cp \div 64) % 64), 128 + (cp % 64)>>

\* Buffer.from(string): the UTF-8 encoding; a surrogate pair is one code
\* point, a surrogate without its partner is written as U+FFFD.
RECURSIVE BufferFrom(_)
BufferFrom(s) ==
  IF Len(s) = 0 THEN <<>>
  ELSE IF Len(s) >= 2 /\ HighSurrogate(s[1]) /\ LowSurrogate(s[2])
  THEN Utf8(65536 + (s[1] - 55296) * 1024 + (s[2] - 56320))
       \o BufferFrom(SubSeq(s, 3, Len(s)))
  ELSE IF HighSurrogate(s[1]) \/ LowSurrogate(s[1])
  THEN Utf8(65533) \o BufferFrom(Tail(s))
  ELSE Utf8(s[1]) \o BufferFrom(Tail(s))

\* crypto.timingSafeEqual(x, y): a RangeError for different byte lengths
timingSafeEqual(x, y) ==
  IF Len(x) # Len(y) THEN [threw |-> TRUE, value |-> FALSE]
  ELSE [threw |-> FALSE, value |-> x = y]

\* constantTimeCompare(a, b)
constantTimeCompare(a, b) ==
  IF Len(a) # Len(b) THEN [threw |-> FALSE, value |-> FALSE]
  ELSE LET r == timingSafeEqual(BufferFrom(a), BufferFrom(b))
       IN IF r.threw THEN [threw |-> FALSE, value |-> FALSE]
          ELSE r

\* A call of one of the three functions: its arguments (a token or a byte
\* count as a sequence of one number, a string as it is), the random bytes
\* drawn so far and the values returned so far.
Call(kind, a, b) ==
  [kind |-> kind, a |-> a, b |-> b, bytes |-> <<>>, out |-> <<>>]

CryptoCalls ==
  {Call("hashToken", <<a>>, <<b>>) : a, b \in {EmptyToken} \cup Tokens}
  \cup {Call("constantTimeCompare", a, b) : a, b \in Strings}
  \cup {Call("generateRandomToken", <<n>>, <<n>>) : n \in 0..MaxBytes}

\* hashToken(a), hashToken(a) again, then hashToken(b)
HashToken ==
  \E c \in seen :
    /\ c.kind = "hashToken"
    /\ Len(c.out) < 3
    /\ LET input == <<c.a[1], c.a[1], c.b[1]>>[Len(c.out) + 1]
       IN seen' = {[c EXCEPT !.out = Append(@, hashTokenHex(input))]}
    /\ UNCHANGED <<req, tx, nodeEnv, jar, stateIssued, now, sessionVars,
                   accountVars>>

ConstantTimeCompare ==
  \E c \in seen :
    /\ c.kind = "constantTimeCompare"
    /\ c.out = <<>>
    /\ seen' = {[c EXCEPT !.out = <<constantTimeCompare(c.a, c.b)>>]}
    /\ UNCHANGED <<req, tx, nodeEnv, jar, stateIssued, now, sessionVars,
                   accountVars>>

\* generateRandomToken(bytes), called again and again
GenerateRandomToken ==
  \E c \in seen :
    /\ c.kind = "generateRandomToken"
    /\ Len(c.out) < MaxSamples
    /\ \E buf \in randomBytes(c.a[1]) :
         seen' = {[c EXCEPT !.bytes = Append(@, buf),
                            !.out = Append(@, toBase64Url(buf))]}
    /\ UNCHANGED <<req, tx, nodeEnv, jar, stateIssued, now, sessionVars,
                   accountVars>>

\* One of the functions is about to be called with some arguments.
InitCrypto ==
  /\ users = {}
  /\ oauth_accounts = {}
  /\ sessions = {}
  /\ now = 0
  /\ generated = {}
  /\ res = NoRes
  /\ issued = [t \in Tokens |-> [user |-> 0, at |-> 0]]
  /\ revoked = {}
  /\ nextUserId = 1
  /\ client = NoTx
  /\ rc = Idle
  /\ prev = {}
  /\ calls = 0
  /\ req = [p \in Procs |-> IdleReq]
  /\ tx = [p \in Procs |-> NoWrites]
  /\ jar = {}
  /\ stateIssued = {}
  /\ nodeEnv = "development"
  /\ \E c \in CryptoCalls : seen = {c}

NextCrypto == HashToken \/ ConstantTimeCompare \/ GenerateRandomToken

CryptoSpec == InitCrypto /\ [][NextCrypto]_vars

CompareIsEquality ==
  \A c \in seen :
    (c.kind = "constantTimeCompare" /\ c.out # <<>>) =>
      /\ ~c.out[1].threw
      /\ c.out[1].value <=> c.a = c.b

\* C29: for every byte length, the tokens of repeated calls differ from
\* one another and hold only URL-safe characters and no padding; more
\* bytes give a longer token.
TokensNeverRepeat ==
  \A c \in seen :
    c.kind = "generateRandomToken" =>
      /\ \A i, j \in 1..Len(c.out) : i # j => c.out[i] # c.out[j]
      /\ \A i \in 1..Len(c.out) :
           /\ \A k \in 1..Len(c.out[i]) : c.out[i][k] \notin {"+", "/", "="}
           /\ Len(c.out[i]) = (4 * c.a[1] + 2) \div 3
      /\ \A m \in 0..MaxBytes :
           m < c.a[1] => (4 * m + 2) \div 3 < (4 * c.a[1] + 2) \div 3

\* C29, as the code has it: a token is the unpadded base64url text of the
\* bytes drawn, of length ceil(4n/3), which grows with n; two tokens are
\* equal exactly when the bytes drawn are equal, so that tokens of zero
\* bytes are all equal.
TokensRepeatWithBytes ==
  \A c \in seen :
    c.kind = "generateRandomToken" =>
      /\ \A i, j \in 1..Len(c.out) :
           c.out[i] = c.out[j] <=> c.bytes[i] = c.bytes[j]
      /\ c.a[1] = 0 => \A i \in 1..Len(c.out) : c.out[i] = <<>>
      /\ \A i \in 1..Len(c.out) :
           /\ \A k \in 1..Len(c.out[i]) :
                c.out[i][k] \in
                  {"A", "B", "C", "D", "E", "F", "G", "H", "I", "J", "K",
                   "L", "M", "N", "O", "P", "Q", "R", "S", "T", "U", "V",
                   "W", "X", "Y", "Z", "a", "b", "c", "d", "e", "f", "g",
                   "h", "i", "j", "k", "l", "m", "n", "o", "p", "q", "r",
                   "s", "t", "u", "v", "w", "x", "y", "z", "0", "1", "2",
                   "3", "4", "5", "6", "7", "8", "9", "-", "_"}
           /\ Len(c.out[i]) = (4 * c.a[1] + 2) \div 3
      /\ \A m \in 0..MaxBytes :
           m < c.a[1] => (4 * m + 2) \div 3 < (4 * c.a[1] + 2) \div 3

\* Two tokens of three bytes that differ, one of them with '-' and '_'.
TokensRepeatWithBytesWitness ==
  \E c \in seen :
    /\ c.kind = "generateRandomToken" /\ c.a[1] = 3 /\ Len(c.out) = 2
    /\ c.out[1] # c.out[2]
    /\ \E k, l \in 1..4 : c.out[1][k] = "-" /\ c.out[1][l] = "_"

----------------------------------------------------------------------------
(* Reconciliation by email, checked under Spec *)

\* C34: a call that finds no link for its identity but a user with its
\* email adds exactly one link, to that user, and leaves every user row as
\* it was, whatever name and avatar the provider supplied.
MergeLeavesUser ==
  (Finished /\ ~rc.fault /\ PreLinked = {} /\ PreByEmail # {}) =>
     /\ rc.pc = "returned"
     /\ users = rc.pre.users
     /\ rc.user \subseteq rc.pre.users
     /\ \A u \in rc.user : u.email = TheParams.email
     /\ rc.pre.oauth_accounts \subseteq oauth_accounts
     /\ Cardinality(oauth_accounts \ rc.pre.oauth_accounts) = 1
     /\ \A a \in oauth_accounts \ rc.pre.oauth_accounts :
          /\ a.user_id = TheUser.id
          /\ a.provider = TheParams.provider
          /\ a.provider_user_id = TheParams.providerUserId

\* A user stored without a name was reached by email through a second
\* provider that supplied a name and an avatar: the row has neither.
MergeLeavesUserWitness ==
  /\ rc.pc = "returned"
  /\ PreLinked = {}
  /\ PreByEmail # {}
  /\ TheParams.name = "Ann"
  /\ TheParams.avatarUrl = "pic"
  /\ TheUser.name = NULL
  /\ TheUser.avatar_url = NULL
  /\ TheUser \in users
  /\ Cardinality(LinksOf(TheUser.id)) = 2

----------------------------------------------------------------------------
(* Properties of the callback flow, checked under FlowSpec *)

\* C33: no step deletes a user, changes a user's email, or deletes or
\* re-points a link; a login that succeeds is answered with the user its
\* identity is linked to, whatever email the provider reported this time.
IdentityStable ==
  [][/\ \A u \in users : \E v \in users' : v.id = u.id /\ v.email = u.email
     /\ oauth_accounts \subseteq oauth_accounts'
     /\ \A p \in Procs :
          (req'[p].pc = "done" /\ req'[p].status = 200) =>
            \A q \in req'[p].params :
              /\ \E a \in oauth_accounts' :
                   /\ a.provider = q.provider
                   /\ a.provider_user_id = q.providerUserId
              /\ \A a \in oauth_accounts', b \in req'[p].body.user :
                   (a.provider = q.provider
                    /\ a.provider_user_id = q.providerUserId)
                   => b.id = a.user_id]_vars

\* A login was answered with the user its identity had been linked to by an
\* earlier login, although the provider now reported another email.
IdentityStableWitness ==
  \E p, o \in Procs :
    /\ p # o
    /\ req[p].pc = "done" /\ req[p].status = 200
    /\ req[o].pc = "done" /\ req[o].status = 200
    /\ \E q \in req[p].params, r \in req[o].params, b \in req[p].body.user :
         /\ q.provider = r.provider
         /\ q.providerUserId = r.providerUserId
         /\ q.email # r.email
         /\ b.email = r.email
         /\ \A c \in req[o].body.user : c.id = b.id
    /\ Cardinality(users) = 1

\* C35: in every state the stored links and sessions each refer to a
\* stored user, and every stored user has a link, whether the logins under
\* way succeed, fail or run side by side.
ReferentialIntegrity ==
  /\ \A a \in oauth_accounts : \E u \in users : u.id = a.user_id
  /\ \A s \in sessions : \E u \in users : u.id = s.user_id
  /\ \A u \in users : \E a \in oauth_accounts : a.user_id = u.id

\* One login has stored a user, a link and a session while the other, for
\* the same new identity, failed on the unique key and stored nothing.
ReferentialIntegrityWitness ==
  \E p, o \in Procs :
    /\ req[p].pc = "done" /\ req[p].status = 200
    /\ req[o].pc = "done" /\ req[o].err.code = "23505"
    /\ Cardinality(users) = 1
    /\ Cardinality(oauth_accounts) = 1
    /\ Cardinality(sessions) = 1

\* The callback of request p has ended in the catch of its route after
\* reconcile had returned a user: createUserSession threw.
SessionFailed(p) ==
  /\ req[p].pc = "done"
  /\ req[p].err # NoError
  /\ \E i \in 1..Len(req[p].steps) : req[p].steps[i] = "session"

\* C36: reconciliation and session issuance are separate units.  The step
\* at which persisting the session fails writes no row and leaves users and
\* links as reconcile committed them; the callback answers 500 with the
\* login-failure message and without a session cookie, and from then on the
\* user reconcile returned and the link of the presented identity stay stored.
SessionFailureKeepsAccount ==
  /\ [][\A p \in Procs :
          (req[p].pc = "session" /\ req'[p].pc = "done") =>
             /\ users' = users
             /\ oauth_accounts' = oauth_accounts
             /\ sessions' = sessions
             /\ SessionFailed(p)']_vars
  /\ [](\A p \in Procs : SessionFailed(p) =>
          /\ req[p].status = 500
          /\ req[p].body.error = LoginFailedText(req[p].provider)
          /\ req[p].body.user = {}
          /\ req[p].cookie = {}
          /\ \E u \in users : u.id = ReqUser(p).id /\ u.email = ReqUser(p).email
          /\ \E a \in oauth_accounts :
               /\ a.user_id = ReqUser(p).id
               /\ a.provider = ReqParams(p).provider
               /\ a.provider_user_id = ReqParams(p).providerUserId)

\* A first login created the user and its link and then failed to persist
\* its session: the account is stored, no session is, no cookie was set.
SessionFailureKeepsAccountWitness ==
  \E p \in Procs :
    /\ SessionFailed(p)
    /\ req[p].cookie = {}
    /\ ReqUser(p) \in users
    /\ Cardinality(users) = 1
    /\ Cardinality(oauth_accounts) = 1
    /\ sessions = {}

----------------------------------------------------------------------------
(* Further properties of the session manager, checked under SessionSpec *)

\* C37: an issue sets the session cookie only after its row was inserted.
\* An issue that sets a cookie has added, in the same call, the row holding
\* the digest of the cookie's token, made out to the user of the call and
\* expiring seven days after the time of the call; an issue whose insert
\* failed adds no row and sets no cookie.
CookieAfterInsert ==
  [][(res'.op = "issue" /\ now' = now) =>
       /\ \A t \in res'.cookie :
            /\ t \in Tokens
            /\ \E s \in sessions' \ sessions :
                 /\ s.token_hash = hashToken(t)
                 /\ s.user_id = res'.arg
                 /\ s.expires_at = now + expiryMs
            /\ issued'[t] = [user |-> res'.arg, at |-> now]
       /\ (res'.err \/ sessions' = sessions) => res'.cookie = {}]_vars

\* Late in the run one issue has failed with the store down, setting no
\* cookie, after an earlier issue had set one whose row is still stored.
CookieAfterInsertWitness ==
  /\ res.op = "issue"
  /\ res.fault
  /\ res.cookie = {}
  /\ now > 0
  /\ \E t \in Tokens, s \in sessions :
       /\ WasIssued(t)
       /\ s.token_hash = hashToken(t)
       /\ s.expires_at = issued[t].at + expiryMs
       /\ issued[t].at > 0

\* C38: sweepExpired is unobservable through validate.  A sweep leaves the
\* result of validate as it was for every token, the empty one included, and
\* every row it removes had expired, so that validate treats it as absent
\* at the time of the sweep and, the clock never going back, at every later
\* time.
SweepUnobservable ==
  [][/\ now' >= now
     /\ (res'.op = "sweep" /\ now' = now) =>
          /\ \A t \in {EmptyToken} \cup Tokens :
               validateSession(t)' = validateSession(t)
          /\ \A s \in sessions \ sessions' : s.expires_at <= now
          /\ sessions' \subseteq sessions]_vars

\* A sweep has removed a row at the very instant of its expiry while the
\* session of another token is still valid.
SweepUnobservableWitness ==
  /\ res.op = "sweep"
  /\ res.count > 0
  /\ \E t \in Tokens :
       /\ WasIssued(t)
       /\ t \notin revoked
       /\ issued[t].at + expiryMs = now
       /\ \A s \in sessions : s.token_hash # hashToken(t)
       /\ validateSession(t) = {}
  /\ \E t \in Tokens : validateSession(t) # {}

----------------------------------------------------------------------------
(* db.ts and auth/repo.ts: the connection pool under concurrent calls of   *)
(* findOrCreateUserFromOAuth.  The pool hands out at most max connections; *)
(* a pool.connect() that finds none free waits, and rejects when           *)
(* connectionTimeoutMillis have passed.  The statements of the transaction *)
(* are one step each as far as the connection is concerned: any of them    *)
(* may throw.  Here req[c] is the call of caller c and tx[c] says whether  *)
(* it holds a connection.                                                  *)

MaxPool == 2                         \* poolConfig.max, scaled down from 20

Callers == 1..(MaxPool + 1)          \* one caller more than the pool holds

\* The statements awaited inside the try block, in order.
TryStatements == <<"BEGIN", "SELECT", "INSERT", "COMMIT">>

PoolIdle == [pc |-> "idle", at |-> 0, connected |-> FALSE, released |-> 0,
             path |-> ""]

\* The connections checked out of the pool.
CheckedOut == {c \in Callers : tx[c].checkedOut}

\* findOrCreateUserFromOAuth(params) is called.
PoolCall(c) ==
  /\ req[c].pc = "idle"
  /\ req' = [req EXCEPT ![c].pc = "connect"]
  /\ UNCHANGED <<tx, nodeEnv, jar, stateIssued, seen, now, sessionVars,
                 accountVars>>

\* const client = await pool.connect(): a free connection is handed out, or
\* the connection cannot be made; the await is outside the try block.
PoolConnect(c, fail) ==
  /\ req[c].pc = "connect"
  /\ Cardinality(CheckedOut) < MaxPool
  /\ IF fail
     THEN /\ req' = [req EXCEPT ![c].pc = "thrown",
                                ![c].path = "connectFailed"]
          /\ UNCHANGED tx
     ELSE /\ req' = [req EXCEPT ![c].pc = "try", ![c].at = 1,
                                ![c].connected = TRUE]
          /\ tx' = [tx EXCEPT ![c].checkedOut = TRUE]
  /\ UNCHANGED <<nodeEnv, jar, stateIssued, seen, now, sessionVars,
                 accountVars>>

\* connectionTimeoutMillis: 5000 pass with every connection checked out.
PoolTimeout(c) ==
  /\ req[c].pc = "connect"
  /\ Cardinality(CheckedOut) = MaxPool
  /\ req' = [req EXCEPT ![c].pc = "thrown", ![c].path = "timeout"]
  /\ UNCHANGED <<tx, nodeEnv, jar, stateIssued, seen, now, sessionVars,
                 accountVars>>

\* try { await client.query(...) ... await client.query('COMMIT') }
PoolTry(c, fail) ==
  /\ req[c].pc = "try"
  /\ req' = [req EXCEPT ![c] =
       IF fail
       THEN [@ EXCEPT !.pc = "catch"]
       ELSE IF req[c].at = Len(TryStatements)
       THEN [@ EXCEPT !.pc = "finally", !.path = "commit"]
       ELSE [@ EXCEPT !.at = @ + 1]]
  /\ UNCHANGED <<tx, nodeEnv, jar, stateIssued, seen, now, sessionVars,
                 accountVars>>

\* A catch block that releases the connection itself, after the ROLLBACK.
PoolCatch_ReleaseAfterRollback(c, fail) ==
  /\ req[c].pc = "catch"
  /\ IF fail
     THEN /\ req' = [req EXCEPT ![c].pc = "thrown",
                                ![c].path = "rollbackFailed"]
          /\ UNCHANGED tx
     ELSE /\ req' = [req EXCEPT ![c].pc = "thrown",
                                ![c].path = "rollback",
                                ![c].released = @ + 1]
          /\ tx' = [tx EXCEPT ![c].checkedOut = FALSE]
  /\ UNCHANGED <<nodeEnv, jar, stateIssued, seen, now, sessionVars,
                 accountVars>>

\* catch (error) { await client.query('ROLLBACK'); throw error; }: the
\* finally block runs whether the ROLLBACK settles or throws.
PoolCatch(c, fail) ==
  /\ req[c].pc = "catch"
  /\ req' = [req EXCEPT ![c].pc = "finally",
                        ![c].path = IF fail THEN "rollbackFailed"
                                    ELSE "rollback"]
  /\ UNCHANGED <<tx, nodeEnv, jar, stateIssued, seen, now, sessionVars,
                 accountVars>>

\* finally { client.release(); }, then the call returns or throws.
PoolFinally(c) ==
  /\ req[c].pc = "finally"
  /\ tx' = [tx EXCEPT ![c].checkedOut = FALSE]
  /\ req' = [req EXCEPT ![c].released = @ + 1,
                        ![c].pc = IF req[c].path = "commit"
                                  THEN "returned" ELSE "thrown"]
  /\ UNCHANGED <<nodeEnv, jar, stateIssued, seen, now, sessionVars,
                 accountVars>>

\* The server with an idle pool: no call made, no connection checked out.
InitPool ==
  /\ users = {}
  /\ oauth_accounts = {}
  /\ sessions = {}
  /\ now = 0
  /\ generated = {}
  /\ res = NoRes
  /\ issued = [t \in Tokens |-> [user |-> 0, at |-> 0]]
  /\ revoked = {}
  /\ nextUserId = 1
  /\ client = NoTx
  /\ rc = Idle
  /\ prev = {}
  /\ calls = 0
  /\ req = [c \in Callers |-> PoolIdle]
  /\ tx = [c \in Callers |-> [checkedOut |-> FALSE]]
  /\ jar = {}
  /\ stateIssued = {}
  /\ seen = {}
  /\ nodeEnv = "development"

NextPool ==
  \/ \E c \in Callers : PoolCall(c)
  \/ \E c \in Callers, fail \in BOOLEAN : PoolConnect(c, fail)
  \/ \E c \in Callers : PoolTimeout(c)
  \/ \E c \in Callers, fail \in BOOLEAN : PoolTry(c, fail)
  \/ \E c \in Callers, fail \in BOOLEAN : PoolCatch(c, fail)
  \/ \E c \in Callers : PoolFinally(c)

PoolSpec == InitPool /\ [][NextPool]_vars

Completed(c) == req[c].pc \in {"returned", "thrown"}

\* C39: a call that obtained a connection releases it exactly once on every
\* path (commit, rollback, failed rollback) and a call that obtained none
\* releases nothing; a call that has completed holds no connection, so with
\* every call completed none is checked out; a connection is never released
\* twice; and the calls in flight never hold more than the pool's maximum.
ConnectionReleasedOnce ==
  /\ Cardinality(CheckedOut) <= MaxPool
  /\ \A c \in Callers :
       /\ req[c].released <= 1
       /\ tx[c].checkedOut =>
            /\ req[c].connected
            /\ req[c].released = 0
            /\ req[c].pc \in {"try", "catch", "finally"}
       /\ Completed(c) =>
            /\ ~tx[c].checkedOut
            /\ req[c].released = (IF req[c].connected THEN 1 ELSE 0)
            /\ req[c].connected <=>
                 req[c].path \in {"commit", "rollback", "rollbackFailed"}
  /\ (\A c \in Callers : Completed(c)) => CheckedOut = {}

\* Every call has completed: one committed, one failed and its ROLLBACK
\* failed too, and one found the pool exhausted and timed out.
ConnectionReleasedOnceWitness ==
  /\ \A c \in Callers : Completed(c)
  /\ \E c \in Callers : req[c].path = "commit" /\ req[c].released = 1
  /\ \E c \in Callers : req[c].path = "rollbackFailed" /\ req[c].released = 1
  /\ \E c \in Callers : req[c].path = "timeout" /\ req[c].released = 0
  /\ CheckedOut = {}

----------------------------------------------------------------------------
(* auth/routes.ts, utils/cookies.ts: the start routes with the response    *)
(* they send.  A URL is its endpoint and its query parameters; a cookie is *)
(* its name, its value and its attributes.                                 *)

\* Values of generateRandomToken(32) over several starts.
StartStates == 1..(MaxState + 1)

\* config.cookie.maxAge
cookieMaxAge == 7 * 24 * 60 * 60 * 1000

\* No options given.
NoOptions == [maxAge |-> {}]

\* res.cookie(name, value, { httpOnly, secure, sameSite, maxAge, path,
\* ...options }): the options given override the defaults.
setSessionCookie(name, value, options) ==
  [name |-> name, value |-> value, httpOnly |-> TRUE,
   secure |-> (nodeEnv = "production"), sameSite |-> "lax",
   maxAge |-> IF options.maxAge = {} THEN cookieMaxAge
              ELSE CHOOSE ms \in options.maxAge : TRUE,
   path |-> "/"]

\* A state cookie that lives as long as a session cookie.
setOAuthStateCookie_DefaultAge(state) ==
  setSessionCookie("oauth_state", state, NoOptions)

\* setSessionCookie(res, 'oauth_state', state, { maxAge: 10 * 60 * 1000 })
setOAuthStateCookie(state) ==
  setSessionCookie("oauth_state", state, [maxAge |-> {10 * 60 * 1000}])

\* `${config.google.authUrl}?${params.toString()}`
getGoogleAuthUrl(state) ==
  [url |-> "https://accounts.google.com/o/oauth2/v2/auth",
   params |-> [client_id |-> "GOOGLE_CLIENT_ID",
               redirect_uri |-> "GOOGLE_REDIRECT_URI",
               response_type |-> "code",
               scope |-> "openid profile email",
               state |-> state,
               access_type |-> "online",
               prompt |-> "select_account"]]

\* `${config.github.authUrl}?${params.toString()}`
getGitHubAuthUrl(state) ==
  [url |-> "https://github.com/login/oauth/authorize",
   params |-> [client_id |-> "GITHUB_CLIENT_ID",
               redirect_uri |-> "GITHUB_REDIRECT_URI",
               scope |-> "read:user user:email",
               state |-> state,
               allow_signup |-> "true"]]

\* GET /auth/<provider>/start: generate the state, set the oauth_state
\* cookie, redirect (302) to the authorization URL.  The browser stores the
\* cookie in place of the one it held.
Start(provider) ==
  /\ \E state \in StartStates \ stateIssued :
       LET cookie == setOAuthStateCookie(state)
           authUrl == IF provider = "google" THEN getGoogleAuthUrl(state)
                      ELSE getGitHubAuthUrl(state)
       IN /\ stateIssued' = stateIssued \cup {state}
          /\ jar' = {cookie.value}
          /\ seen' = {[kind |-> "start", provider |-> provider,
                       status |-> 302, location |-> authUrl,
                       cookie |-> cookie]}
  /\ UNCHANGED <<req, tx, nodeEnv, now, sessionVars, accountVars>>

\* The provider refuses the code or the profile request of a callback.
Refusals == {TokenRefused, ProfileRefused}

\* Starts, the callbacks that follow them, and the provider refusing.
NextStart ==
  \/ \E provider \in Providers : Start(provider)
  \/ \E p \in Procs, provider \in Providers, code \in CodeParams,
        state \in StateParams : Callback(p, provider, code, state)
  \/ \E p \in Procs, reply \in Refusals : CompleteFlow(p, reply)

StartSpec == InitFlow /\ [][NextStart]_vars

\* C32: a start answers with a redirect to the authorization URL of its
\* provider, whose state parameter is a value no earlier start generated,
\* and sets the cookie oauth_state to that value with a max age of ten
\* minutes; a callback that brings a state a start issued in both its state
\* parameter and its oauth_state cookie is not refused by the state check:
\* with a code it goes on to the provider, without one it is refused for the
\* code alone.
StartBindsState ==
  [][\A e \in seen' :
       /\ e.kind = "start" =>
            /\ e.status = 302
            /\ e.location.url =
                 (IF e.provider = "google"
                  THEN "https://accounts.google.com/o/oauth2/v2/auth"
                  ELSE "https://github.com/login/oauth/authorize")
            /\ e.location.params.state = e.cookie.value
            /\ e.cookie.name = "oauth_state"
            /\ e.cookie.maxAge = 600000
            /\ e.cookie.httpOnly
            /\ e.cookie.value \notin stateIssued
            /\ jar' = {e.cookie.value}
       /\ (/\ e.kind = "callback"
           /\ e.state.type = "string"
           /\ e.state.value \in stateIssued
           /\ e.cookie = {e.state.value}) =>
            IF Missing(e.code)
            THEN req'[e.p].body.error = "Missing authorization code"
            ELSE /\ req'[e.p].pc = "flow"
                 /\ req'[e.p].checked = {e.state.value}
                 /\ req'[e.p].status = 0]_vars

\* After two starts a callback has brought the state of the second start
\* with its cookie and a code, and has been passed on to the provider.
StartBindsStateWitness ==
  /\ Cardinality(stateIssued) = 2
  /\ \E e \in seen :
       /\ e.kind = "callback"
       /\ e.state.type = "string"
       /\ e.state.value \in stateIssued
       /\ e.cookie = {e.state.value}
       /\ jar = e.cookie
       /\ req[e.p].pc = "flow"
       /\ req[e.p].checked = jar

----------------------------------------------------------------------------
(* auth/oauthGoogle.ts, auth/oauthGithub.ts: one call of                   *)
(* handle<Provider>Callback(code) with the requests it sends.  seen holds  *)
(* the call: its argument, where it stands, the requests sent so far in    *)
(* order, the answers received, and how it settled.  An answer is a fetch  *)
(* that rejected (no connection) or a response: ok or not, with its body.  *)
(* An error message built from a template is the sequence of its parts.    *)

AuthCodes == {"code1", "code2"}              \* authorization codes
ErrorBodies == {"", "invalid_grant"}         \* bodies of refusing responses
AccessTokens == {"token1"}

tokenUrl(provider) ==
  IF provider = "google" THEN "https://oauth2.googleapis.com/token"
  ELSE "https://github.com/login/oauth/access_token"

userInfoUrl(provider) ==
  IF provider = "google" THEN "https://www.googleapis.com/oauth2/v2/userinfo"
  ELSE "https://api.github.com/user"

userEmailsUrl == "https://api.github.com/user/emails"

\* fetch(tokenUrl, { method: 'POST', body: params.toString() })
TokenRequest(provider, code) ==
  [method |-> "POST", url |-> tokenUrl(provider), code |-> code,
   bearer |-> ""]

\* fetch(url, { headers: { Authorization: `Bearer ${accessToken}` } })
BearerRequest(url, accessToken) ==
  [method |-> "GET", url |-> url, code |-> "", bearer |-> accessToken]

Rejected == [settled |-> "rejected", ok |-> FALSE, text |-> "", json |-> {}]
Refused(text) ==
  [settled |-> "fulfilled", ok |-> FALSE, text |-> text, json |-> {}]
Ok(json) ==
  [settled |-> "fulfilled", ok |-> TRUE, text |-> "", json |-> {json}]

Failures == {Rejected} \cup {Refused(text) : text \in ErrorBodies}

TokenResponses ==
  Failures \cup {Ok([access_token |-> t]) : t \in AccessTokens}

GoogleUserProfiles ==
  [id : {"p1"}, email : {"a@x.com"}, verified_email : BOOLEAN,
   name : {"Ann"}, picture : {"pic"}]

GoogleProfileResponses == Failures \cup {Ok(j) : j \in GoogleUserProfiles}
GitHubUserInfoResponses == Failures \cup {Ok(j) : j \in GitHubUserInfos}
GitHubUserEmailsResponses == Failures \cup {Ok(j) : j \in GitHubEmailLists}

Json(response) == CHOOSE j \in response.json : TRUE

\* What an awaited function settles with: the value it returns, or the
\* message of the error it throws.
Fulfil(value) == [error |-> <<>>, value |-> {value}]
Throw(message) == [error |-> message, value |-> {}]
FetchFailed == Throw(<<"fetch failed">>)

ProviderName(provider) == IF provider = "google" THEN "Google" ELSE "GitHub"

\* After the token request settled: if (!response.ok) throw new
\* Error(`Failed to exchange <Provider> code: ${await response.text()}`);
\* return data.access_token
exchangeCode(provider, response) ==
  IF response.settled = "rejected" THEN FetchFailed
  ELSE IF ~response.ok
  THEN Throw(<<"Failed to exchange ", ProviderName(provider), " code: ",
               response.text>>)
  ELSE Fulfil(Json(response).access_token)

\* getGoogleUserProfile after its request settled.
getGoogleUserProfile(response) ==
  IF response.settled = "rejected" THEN FetchFailed
  ELSE IF ~response.ok
  THEN Throw(<<"Failed to fetch Google user profile: ", response.text>>)
  ELSE IF ~Json(response).verified_email
  THEN Throw(<<"Google email is not verified">>)
  ELSE Fulfil([providerId |-> Json(response).id,
               email |-> Json(response).email,
               name |-> Json(response).name,
               avatarUrl |-> Json(response).picture])

\* getGitHubUserInfo after its request settled.
getGitHubUserInfo(response) ==
  IF response.settled = "rejected" THEN FetchFailed
  ELSE IF ~response.ok
  THEN Throw(<<"Failed to fetch GitHub user profile: ", response.text>>)
  ELSE Fulfil(Json(response))

\* getGitHubUserEmail after its request settled.
getGitHubUserEmail(response) ==
  IF response.settled = "rejected" THEN FetchFailed
  ELSE IF ~response.ok
  THEN Throw(<<"Failed to fetch GitHub user emails: ", response.text>>)
  ELSE IF find(Json(response)) = {}
  THEN Throw(<<"No verified email found in GitHub account">>)
  ELSE Fulfil((CHOOSE primaryEmail \in find(Json(response)) : TRUE).email)

\* The object getGitHubUserProfile returns once both promises fulfilled.
getGitHubUserProfile(userInfo, email) ==
  Fulfil([providerId |-> userInfo.id, email |-> email,
          name |-> DisplayName(userInfo), avatarUrl |-> userInfo.avatar_url])

\* The requests get<Provider>UserProfile(accessToken) sends before its first
\* await: one for Google; for GitHub the two of Promise.all([...]).
ProfileRequests(provider, accessToken) ==
  IF provider = "google"
  THEN <<BearerRequest(userInfoUrl("google"), accessToken)>>
  ELSE <<BearerRequest(userInfoUrl("github"), accessToken),
         BearerRequest(userEmailsUrl, accessToken)>>

\* A call of handle<Provider>Callback(code) before it runs.
AdapterCalls ==
  [kind : {"adapter"}, provider : Providers, code : AuthCodes,
   pc : {"called"}, sent : {<<>>}, token : {{}}, userInfo : {{}},
   email : {{}}, pending : {{}}, error : {<<>>}, value : {{}}]

TheCall == CHOOSE c \in seen : TRUE

Settle(c, out) ==
  [c EXCEPT !.pc = IF out.value = {} THEN "thrown" ELSE "returned",
            !.error = out.error, !.value = out.value]

\* handle<Provider>Callback(code) runs up to the await of the token request.
HandleCallback ==
  /\ seen # {} /\ TheCall.pc = "called"
  /\ seen' = {[TheCall EXCEPT
                 !.pc = "exchange",
                 !.sent = Append(@, TokenRequest(TheCall.provider,
                                                 TheCall.code))]}
  /\ UNCHANGED <<req, tx, nodeEnv, jar, stateIssued, now, sessionVars,
                 accountVars>>

\* An exchange that sends the token request again when it was refused.
TokenSettles_Retry(response) ==
  /\ seen # {} /\ TheCall.pc = "exchange"
  /\ LET c == [TheCall EXCEPT !.token = {response}]
         out == exchangeCode(c.provider, response)
     IN seen' = IF out.value = {} /\ Len(c.sent) < 2
                THEN {[c EXCEPT !.sent = Append(@, TokenRequest(c.provider,
                                                                 c.code))]}
                ELSE IF out.value = {} THEN {Settle(c, out)}
                ELSE {[c EXCEPT !.pc = "profile",
                         !.sent = @ \o ProfileRequests(c.provider,
                                    CHOOSE t \in out.value : TRUE),
                         !.pending = IF c.provider = "google"
                                     THEN {"userInfo"}
                                     ELSE {"userInfo", "email"}]}
  /\ UNCHANGED <<req, tx, nodeEnv, jar, stateIssued, now, sessionVars,
                 accountVars>>

\* The token request settles: exchange<Provider>Code throws, which ends the
\* call, or returns the access token, with which
\* get<Provider>UserProfile(accessToken) sends its request or requests.
TokenSettles(response) ==
  /\ seen # {} /\ TheCall.pc = "exchange"
  /\ LET c == [TheCall EXCEPT !.token = {response}]
         out == exchangeCode(c.provider, response)
     IN seen' = IF out.value = {}
                THEN {Settle(c, out)}
                ELSE {[c EXCEPT !.pc = "profile",
                         !.sent = @ \o ProfileRequests(c.provider,
                                    CHOOSE t \in out.value : TRUE),
                         !.pending = IF c.provider = "google"
                                     THEN {"userInfo"}
                                     ELSE {"userInfo", "email"}]}
  /\ UNCHANGED <<req, tx, nodeEnv, jar, stateIssued, now, sessionVars,
                 accountVars>>

\* The request of getGoogleUserProfile settles, and with it the call.
GoogleProfileSettles(response) ==
  /\ seen # {} /\ TheCall.pc = "profile" /\ TheCall.provider = "google"
  /\ seen' = {Settle([TheCall EXCEPT !.pending = {}],
                     getGoogleUserProfile(response))}
  /\ UNCHANGED <<req, tx, nodeEnv, jar, stateIssued, now, sessionVars,
                 accountVars>>

\* Promise.all: the first rejection settles the call; with both promises
\* fulfilled the profile is returned.  A promise that settles after the
\* call has thrown changes nothing.
PromiseAll(c, out) ==
  IF c.pc # "profile" THEN c
  ELSE IF out.value = {} THEN Settle(c, out)
  ELSE IF c.userInfo # {} /\ c.email # {}
  THEN Settle(c, getGitHubUserProfile(CHOOSE u \in c.userInfo : TRUE,
                                      CHOOSE m \in c.email : TRUE))
  ELSE c

\* The request of getGitHubUserInfo settles.
GitHubUserInfoSettles(response) ==
  /\ seen # {} /\ TheCall.provider = "github"
  /\ "userInfo" \in TheCall.pending
  /\ LET out == getGitHubUserInfo(response)
         c == [TheCall EXCEPT !.pending = @ \ {"userInfo"},
                              !.userInfo = out.value]
     IN seen' = {PromiseAll(c, out)}
  /\ UNCHANGED <<req, tx, nodeEnv, jar, stateIssued, now, sessionVars,
                 accountVars>>

\* The request of getGitHubUserEmail settles.
GitHubUserEmailsSettles(response) ==
  /\ seen # {} /\ TheCall.provider = "github"
  /\ "email" \in TheCall.pending
  /\ LET out == getGitHubUserEmail(response)
         c == [TheCall EXCEPT !.pending = @ \ {"email"},
                              !.email = out.value]
     IN seen' = {PromiseAll(c, out)}
  /\ UNCHANGED <<req, tx, nodeEnv, jar, stateIssued, now, sessionVars,
                 accountVars>>

\* A callback has passed its checks and is about to call the adapter.
InitAdapter ==
  /\ users = {}
  /\ oauth_accounts = {}
  /\ sessions = {}
  /\ now = 0
  /\ generated = {}
  /\ res = NoRes
  /\ issued = [t \in Tokens |-> [user |-> 0, at |-> 0]]
  /\ revoked = {}
  /\ nextUserId = 1
  /\ client = NoTx
  /\ rc = Idle
  /\ prev = {}
  /\ calls = 0
  /\ req = [p \in Procs |-> IdleReq]
  /\ tx = [p \in Procs |-> NoWrites]
  /\ jar = {}
  /\ stateIssued = {}
  /\ nodeEnv = "development"
  /\ \E c \in AdapterCalls : seen = {c}

NextAdapter ==
  \/ HandleCallback
  \/ \E response \in TokenResponses : TokenSettles(response)
  \/ \E response \in GoogleProfileResponses : GoogleProfileSettles(response)
  \/ \E response \in GitHubUserInfoResponses : GitHubUserInfoSettles(response)
  \/ \E response \in GitHubUserEmailsResponses :
       GitHubUserEmailsSettles(response)

AdapterSpec == InitAdapter /\ [][NextAdapter]_vars

\* C31: a call of the adapter sends exactly one token request, carrying its
\* code, as its first request, and sends no request twice.  Profile
\* requests are sent only after the token endpoint answered with success,
\* and then one to each profile endpoint with the access token.  When the
\* token endpoint answers with a non-success status the call throws the
\* exchange error ending in the body of that answer, having sent the token
\* request and nothing else.
ExchangeOnce ==
  \A c \in seen :
    LET tokenRequests == {i \in 1..Len(c.sent) :
                            c.sent[i].url = tokenUrl(c.provider)}
        profileRequests == {i \in 1..Len(c.sent) :
                              c.sent[i].url # tokenUrl(c.provider)}
    IN /\ Cardinality(tokenRequests) = (IF c.pc = "called" THEN 0 ELSE 1)
       /\ \A i \in tokenRequests : i = 1 /\ c.sent[i].code = c.code
       /\ \A i, j \in 1..Len(c.sent) : c.sent[i] = c.sent[j] => i = j
       /\ profileRequests # {} <=>
            \E r \in c.token : r.settled = "fulfilled" /\ r.ok
       /\ \A r \in c.token :
            /\ (r.settled = "fulfilled" /\ r.ok) =>
                 /\ Cardinality(profileRequests) =
                      (IF c.provider = "google" THEN 1 ELSE 2)
                 /\ \A i \in profileRequests :
                      c.sent[i].bearer = Json(r).access_token
            /\ (r.settled = "fulfilled" /\ ~r.ok) =>
                 /\ c.pc = "thrown"
                 /\ c.value = {}
                 /\ Len(c.error) = 4
                 /\ c.error[1] = "Failed to exchange "
                 /\ c.error[2] = (IF c.provider = "google" THEN "Google"
                                  ELSE "GitHub")
                 /\ c.error[4] = r.text
                 /\ Len(c.sent) = 1
            /\ r.settled = "rejected" => c.pc = "thrown" /\ Len(c.sent) = 1

\* The token endpoint answered a GitHub call with a non-success status and
\* the body invalid_grant: the call threw after its one request.
ExchangeOnceWitness ==
  \E c \in seen :
    /\ c.provider = "github"
    /\ c.pc = "thrown"
    /\ c.token = {Refused("invalid_grant")}
    /\ c.error = <<"Failed to exchange ", "GitHub", " code: ", "invalid_grant">>
    /\ c.sent = <<TokenRequest("github", c.code)>>

====
